---- MODULE Spec2Model ----
(***************************************************************************)
(* Model of the session enforcement engine of the gateway                  *)
(* (lte/gateway/c/session_manager): one SessionState object, its update    *)
(* criteria journal, the messages it hands to the session reporter, and    *)
(* the part of LocalEnforcer that drives session termination.              *)
(***************************************************************************)
EXTENDS Integers, Sequences, FiniteSets, TLC

\* ------------------------------------------------------------------------
\* Bounds of the model
\* ------------------------------------------------------------------------
\* largest total usage (tx + rx) a single credit accumulates
MaxUsed == 2
\* largest total allowance a single credit accumulates
MaxAllowed == 2
\* largest request number a session reaches
MaxReq == 3
\* the same three bounds where the enforcer drives the session
EnfMaxUsed == 1
EnfMaxAllowed == 1
EnfMaxReq == 4
\* most force-termination callbacks pending at once
MaxTimers == 1
\* latest time sync_rules_to_time is called with
MaxTime == 2
\* most entries of the active static rule list
MaxRules == 2
\* the three bounds of a session where final grants are received
FinalMaxUsed == 1
FinalMaxAllowed == 1
FinalMaxReq == 2
\* the three bounds of a session where usage of every kind of rule is added
UsageMaxUsed == 1
UsageMaxAllowed == 1
UsageMaxReq == 2
\* the three bounds of a session with two grants that are re-authorised
ReauthMaxUsed == 1
ReauthMaxAllowed == 0
ReauthMaxReq == 2
\* MergeSpec: the length of the active static and of the active restrict rule list
MergeMaxRules == 1
\* RuleSetSpec: the rule sets of a subscriber in one message
MaxRuleSets == 2

\* ------------------------------------------------------------------------
\* Program constants and value domains
\* ------------------------------------------------------------------------
\* SessionCredit::USAGE_REPORTING_THRESHOLD, in percent
USAGE_REPORTING_THRESHOLD == 80
\* threshold of total exhaustion, is_quota_exhausted(1), in percent
TOTAL_EXHAUSTION == 100

SessionFsmState ==
  {"SESSION_ACTIVE", "SESSION_TERMINATION_SCHEDULED", "SESSION_RELEASED",
   "SESSION_TERMINATED"}
ReAuthState == {"REAUTH_NOT_NEEDED", "REAUTH_REQUIRED", "REAUTH_PROCESSING"}
ServiceState ==
  {"SERVICE_ENABLED", "SERVICE_NEEDS_DEACTIVATION", "SERVICE_NEEDS_ACTIVATION",
   "SERVICE_REDIRECTED", "SERVICE_RESTRICTED", "SERVICE_DISABLED"}
FinalAction == {"TERMINATE", "REDIRECT", "RESTRICT_ACCESS"}
MonitoringLevel == {"SESSION_LEVEL", "PCC_RULE_LEVEL"}

EventTriggerState == {"PENDING", "READY", "CLEARED"}
REVALIDATION_TIMEOUT == "REVALIDATION_TIMEOUT"

\* the empty key: a rule without charging key or monitoring key, and the
\* empty session-level monitoring key
NoKey == ""

\* charging keys (rating groups) and monitoring keys the cloud grants
CKeys == {"rg10"}
MKeys == {"m1"}
\* a charging key and a monitoring key that are never granted
UnknownCKey == "rg99"
UnknownMKey == "mx"
AllCKeys == CKeys \cup {UnknownCKey}
AllMKeys == MKeys \cup {UnknownMKey}

\* the shared static rule store (static_rules_): rule id -> charging key and
\* monitoring key of the rule
StaticRules == {"r1", "r2", "r3", "r4"}
static_charging_key ==
  [r \in StaticRules |->
     IF r \in {"r1", "r2"} THEN "rg10" ELSE IF r = "r3" THEN UnknownCKey ELSE NoKey]
static_monitoring_key ==
  [r \in StaticRules |->
     IF r \in {"r1", "r4"} THEN "m1" ELSE IF r = "r3" THEN UnknownMKey ELSE NoKey]

\* the dynamic rules the cloud pushes into a session, with the charging key
\* and the monitoring key each carries
DynamicRules == {"d1"}
dynamic_charging_key == [r \in DynamicRules |-> "rg10"]
dynamic_monitoring_key == [r \in DynamicRules |-> "m1"]

\* FlowQos of the rules: r1 and d1 ask for a QCI of their own, r2 asks for the
\* QCI of the default bearer, r3 and r4 carry no QoS
static_qos ==
  [r \in StaticRules |->
     IF r = "r1" THEN [has_qos |-> TRUE, qci |-> 5]
     ELSE IF r = "r2" THEN [has_qos |-> TRUE, qci |-> 9]
     ELSE [has_qos |-> FALSE, qci |-> 0]]
dynamic_qos == [r \in DynamicRules |-> [has_qos |-> TRUE, qci |-> 5]]

\* SessionConfig: the LTE context of rat_specific_context with the QCI and
\* the id of the default bearer, or none for a WLAN session
LteConfig == [has_lte_context |-> TRUE, qos_class_id |-> 9, bearer_id |-> 5]
WlanConfig == [has_lte_context |-> FALSE, qos_class_id |-> 0, bearer_id |-> 0]
SessionConfigs == {LteConfig, WlanConfig}

\* BearerUpdate{}
NewBearerUpdate ==
  [needs_creation |-> FALSE,
   create_req |-> [link_bearer_id |-> 0, policy_rules |-> <<>>],
   needs_deletion |-> FALSE,
   delete_req |-> [link_bearer_id |-> 0, eps_bearer_ids |-> <<>>]]

\* the static rules that are activated and scheduled in a session
SessionStaticRules == {"r1", "r2"}
\* the order in which a std::set of rule ids is traversed
RuleOrder == <<"d1", "g1", "r1", "r2", "r3", "r4", "x1">>

\* RuleLifetime: activation_time and deactivation_time, 0 for none
RuleLifetime(activation_time, deactivation_time) ==
  [activation_time |-> activation_time, deactivation_time |-> deactivation_time]
\* RuleLifetime{}: the value std::unordered_map::operator[] inserts
NoLifetime == RuleLifetime(0, 0)
\* the lifetimes rules are given
Lifetimes == {RuleLifetime(0, 1), RuleLifetime(1, 0)}

\* what a read of a destroyed std::string of the active static rule list can
\* yield: the id of a rule or a string that is the id of no rule
NoRule == ""
StaleRuleIds == SessionStaticRules \cup {NoRule}

\* map helpers: a map is a function whose domain is the set of its keys
Has(m, k) == k \in DOMAIN m
Put(m, k, v) == [x \in DOMAIN m \cup {k} |-> IF x = k THEN v ELSE m[x]]
Erase(m, k) == [x \in DOMAIN m \ {k} |-> m[x]]
EmptyMap == [x \in {} |-> 0]

\* ------------------------------------------------------------------------
\* SessionCredit: the credit primitive
\* ------------------------------------------------------------------------
NewCredit ==
  [used_tx |-> 0, used_rx |-> 0, allowed |-> 0,
   reporting_tx |-> 0, reporting_rx |-> 0,
   reported_tx |-> 0, reported_rx |-> 0, zero_grant |-> TRUE]

add_used_credit(c, tx, rx) ==
  [c EXCEPT !.used_tx = @ + tx, !.used_rx = @ + rx]

is_quota_exhausted(c, pct) ==
  100 * (c.used_tx + c.used_rx) >= pct * c.allowed

current_grant_contains_zero(c) == c.zero_grant

is_reporting(c) == c.reporting_tx + c.reporting_rx > 0

reset_reporting_credit(c) ==
  [c EXCEPT !.reporting_tx = 0, !.reporting_rx = 0]

mark_failure(c) == reset_reporting_credit(c)

\* receive_credit that leaves the reporting buckets as they are
receive_credit_keeps_reporting(c, granted) ==
  [c EXCEPT !.allowed = @ + granted,
            !.reported_tx = @ + c.reporting_tx,
            !.reported_rx = @ + c.reporting_rx,
            !.zero_grant = (granted = 0)]

receive_credit(c, granted) ==
  [c EXCEPT !.allowed = @ + granted,
            !.reported_tx = @ + c.reporting_tx,
            !.reported_rx = @ + c.reporting_rx,
            !.reporting_tx = 0, !.reporting_rx = 0,
            !.zero_grant = (granted = 0)]

\* usage since the last report; get_usage_for_reporting moves it to reporting
unreported_usage(c) ==
  [tx |-> c.used_tx - c.reporting_tx - c.reported_tx,
   rx |-> c.used_rx - c.reporting_rx - c.reported_rx]

get_usage_for_reporting(c) ==
  [c EXCEPT !.reporting_tx = @ + unreported_usage(c).tx,
            !.reporting_rx = @ + unreported_usage(c).rx]

\* all usage not yet acknowledged, for the terminate request
all_unreported_usage(c) ==
  [tx |-> c.used_tx - c.reported_tx, rx |-> c.used_rx - c.reported_rx]

get_all_unreported_usage_for_reporting(c) ==
  [c EXCEPT !.reporting_tx = c.used_tx - c.reported_tx,
            !.reporting_rx = c.used_rx - c.reported_rx]

\* ------------------------------------------------------------------------
\* ChargingGrant and Monitor
\* ------------------------------------------------------------------------
\* ChargingGrant(): a grant before any credit was received
NewGrant ==
  [credit |-> NewCredit, is_final_grant |-> FALSE, final_action |-> "TERMINATE",
   reauth_state |-> "REAUTH_NOT_NEEDED", service_state |-> "SERVICE_ENABLED"]

\* get_final_action_info: the final action is taken only from a final credit
get_final_action_info(p) ==
  IF p.is_final THEN p.final_action ELSE "TERMINATE"

\* ChargingGrant::receive_charging_grant
receive_charging_grant(g, p) ==
  [g EXCEPT !.credit = receive_credit(g.credit, p.granted),
            !.is_final_grant = p.is_final,
            !.final_action = get_final_action_info(p)]

\* an update for quota is due at the reporting threshold, but a zero grant
\* is reported only once it is totally consumed
quota_update_due(c) ==
  /\ is_quota_exhausted(c, USAGE_REPORTING_THRESHOLD)
  /\ ~(~is_quota_exhausted(c, TOTAL_EXHAUSTION) /\ current_grant_contains_zero(c))

\* ChargingGrant::should_deactivate_service
should_deactivate_service(g) ==
  /\ g.service_state = "SERVICE_ENABLED"
  /\ g.is_final_grant
  /\ is_quota_exhausted(g.credit, TOTAL_EXHAUSTION)

\* ChargingGrant::get_update_type: "NONE" when no update is warranted
get_update_type(g) ==
  IF is_reporting(g.credit) THEN "NONE"
  ELSE IF g.reauth_state = "REAUTH_REQUIRED" THEN "REAUTH_REQUIRED"
  ELSE IF g.is_final_grant /\ is_quota_exhausted(g.credit, TOTAL_EXHAUSTION)
    THEN "NONE"
  ELSE IF quota_update_due(g.credit) THEN "QUOTA_EXHAUSTED"
  ELSE "NONE"

\* the action ChargingGrant::get_action derives from the service state
get_action_type(g) ==
  IF g.service_state = "SERVICE_NEEDS_DEACTIVATION"
    THEN (IF g.is_final_grant /\ g.final_action = "REDIRECT" THEN "REDIRECT"
          ELSE IF g.is_final_grant /\ g.final_action = "RESTRICT_ACCESS"
            THEN "RESTRICT_ACCESS"
          ELSE "TERMINATE_SERVICE")
  ELSE IF g.service_state = "SERVICE_NEEDS_ACTIVATION" THEN "ACTIVATE_SERVICE"
  ELSE "CONTINUE_SERVICE"

\* the service state ChargingGrant::get_action leaves behind
get_action_state(g) ==
  IF g.service_state = "SERVICE_NEEDS_DEACTIVATION" THEN "SERVICE_DISABLED"
  ELSE IF g.service_state = "SERVICE_NEEDS_ACTIVATION" THEN "SERVICE_ENABLED"
  ELSE g.service_state

\* bucket_deltas of a journal entry: what the calls under the journal have
\* added to the buckets of the credit.  Of the buckets, the deltas of the used
\* ones (USED_TX, USED_RX) are kept here
NoDeltas == [used_tx |-> 0, used_rx |-> 0]
add_deltas(entry, tx, rx) ==
  [entry EXCEPT !.bucket_deltas.used_tx = @ + tx,
                !.bucket_deltas.used_rx = @ + rx]

\* ChargingGrant::get_update_criteria: a journal entry holding the grant's
\* state and no deltas
grant_update_criteria(g) ==
  [reauth_state |-> g.reauth_state, service_state |-> g.service_state,
   deleted |-> FALSE, bucket_deltas |-> NoDeltas]

\* SessionCredit::get_update_criteria of a monitor's credit
monitor_update_criteria == [deleted |-> FALSE, bucket_deltas |-> NoDeltas]

NewMonitor(level) == [credit |-> NewCredit, level |-> level]

\* Monitor::should_delete_monitor
should_delete_monitor(m) ==
  /\ current_grant_contains_zero(m.credit)
  /\ is_quota_exhausted(m.credit, TOTAL_EXHAUSTION)

\* ------------------------------------------------------------------------
\* The update criteria journal (SessionStateUpdateCriteria)
\* ------------------------------------------------------------------------
NewUC ==
  [is_fsm_updated |-> FALSE, updated_fsm_state |-> "SESSION_ACTIVE",
   request_number_increment |-> 0,
   charging_credit_map |-> EmptyMap, charging_credit_to_install |-> EmptyMap,
   monitor_credit_map |-> EmptyMap, monitor_credit_to_install |-> EmptyMap,
   is_session_level_key_updated |-> FALSE, updated_session_level_key |-> NoKey,
   is_pending_event_triggers_updated |-> FALSE,
   pending_event_triggers |-> EmptyMap,
   static_rules_to_install |-> {}, static_rules_to_uninstall |-> {},
   new_scheduled_static_rules |-> {},
   dynamic_rules_to_install |-> <<>>, dynamic_rules_to_uninstall |-> {},
   new_scheduled_dynamic_rules |-> <<>>,
   gy_dynamic_rules_to_install |-> <<>>, gy_dynamic_rules_to_uninstall |-> {},
   restrict_rules_to_install |-> {}, restrict_rules_to_uninstall |-> {},
   new_rule_lifetimes |-> EmptyMap,
   is_bearer_mapping_updated |-> FALSE, bearer_id_by_policy |-> EmptyMap]

\* ------------------------------------------------------------------------
\* SessionState.  An operation is an operator from the session (a record of
\* the object's fields, the journal uc passed to the call, and what the call
\* hands out) to the session after the call.
\* ------------------------------------------------------------------------
Msg(kind, key, req, type, usage) ==
  [kind |-> kind, key |-> key, request_number |-> req, type |-> type,
   tx |-> usage.tx, rx |-> usage.rx]

NoUsage == [tx |-> 0, rx |-> 0]

\* SessionState::get_credit_uc
get_credit_uc(st, key) ==
  IF Has(st.uc.charging_credit_map, key) THEN st
  ELSE [st EXCEPT !.uc.charging_credit_map =
          Put(@, key, grant_update_criteria(st.credit_map_[key]))]

\* SessionState::get_monitor_uc
get_monitor_uc(st, key) ==
  IF Has(st.uc.monitor_credit_map, key) THEN st
  ELSE [st EXCEPT !.uc.monitor_credit_map = Put(@, key, monitor_update_criteria)]

\* ChargingGrant::set_service_state on the grant of key, mirrored in its
\* journal entry
set_service_state(st, key, new_state) ==
  [st EXCEPT !.credit_map_[key].service_state = new_state,
             !.uc.charging_credit_map[key].service_state = new_state]

\* ChargingGrant::set_reauth_state on the grant of key, mirrored in its
\* journal entry
set_reauth_state(st, key, new_state) ==
  [st EXCEPT !.credit_map_[key].reauth_state = new_state,
             !.uc.charging_credit_map[key].reauth_state = new_state]

\* SessionState::set_fsm_state
set_fsm_state(st, new_state) ==
  IF st.curr_state_ # new_state
    THEN [st EXCEPT !.curr_state_ = new_state,
                    !.uc.is_fsm_updated = TRUE,
                    !.uc.updated_fsm_state = new_state]
    ELSE st

\* add_to_monitor that starts a monitor for a key it does not find
add_to_monitor_creating(st, key, used_tx, used_rx) ==
  LET s0 == IF Has(st.monitor_map_, key) THEN st
            ELSE [st EXCEPT !.monitor_map_ =
                              Put(@, key, NewMonitor("PCC_RULE_LEVEL"))]
      s1 == get_monitor_uc(s0, key)
  IN [s1 EXCEPT !.monitor_map_[key].credit =
                  add_used_credit(@, used_tx, used_rx),
                !.uc.monitor_credit_map[key] = add_deltas(@, used_tx, used_rx)]

\* SessionState::add_to_monitor
add_to_monitor(st, key, used_tx, used_rx) ==
  IF ~Has(st.monitor_map_, key) THEN st
  ELSE LET s1 == get_monitor_uc(st, key)
           m  == s1.monitor_map_[key]
       IN IF should_delete_monitor(m)
            THEN LET s2 == IF m.level = "SESSION_LEVEL"
                             THEN [s1 EXCEPT
                                     !.uc.is_session_level_key_updated = TRUE,
                                     !.uc.updated_session_level_key = NoKey]
                             ELSE s1
                 IN [s2 EXCEPT !.uc.monitor_credit_map[key].deleted = TRUE,
                               !.monitor_map_ = Erase(@, key)]
            ELSE [s1 EXCEPT !.monitor_map_[key].credit =
                              add_used_credit(@, used_tx, used_rx),
                            !.uc.monitor_credit_map[key] =
                              add_deltas(@, used_tx, used_rx)]

\* dynamic_rules_.get_charging_key_for_rule_id or, failing that,
\* static_rules_.get_charging_key_for_rule_id: NoKey when neither finds a key
get_charging_key_for_rule_id(st, rule_id) ==
  IF rule_id \in st.dynamic_rules_ /\ dynamic_charging_key[rule_id] # NoKey
    THEN dynamic_charging_key[rule_id]
  ELSE IF rule_id \in StaticRules THEN static_charging_key[rule_id]
  ELSE NoKey

\* dynamic_rules_.get_monitoring_key_for_rule_id or, failing that,
\* static_rules_.get_monitoring_key_for_rule_id
get_monitoring_key_for_rule_id(st, rule_id) ==
  IF rule_id \in st.dynamic_rules_ /\ dynamic_monitoring_key[rule_id] # NoKey
    THEN dynamic_monitoring_key[rule_id]
  ELSE IF rule_id \in StaticRules THEN static_monitoring_key[rule_id]
  ELSE NoKey

\* SessionState::update_data_usage_metrics: the counter ue_reported_usage
update_data_usage_metrics(st, bytes_tx, bytes_rx) ==
  [st EXCEPT !.ue_reported_usage =
     [tx |-> @.tx + bytes_tx, rx |-> @.rx + bytes_rx]]

\* the charging part of SessionState::add_rule_usage
add_charging_usage(st, rule_id, used_tx, used_rx) ==
  LET charging_key == get_charging_key_for_rule_id(st, rule_id) IN
  IF charging_key # NoKey /\ Has(st.credit_map_, charging_key)
    THEN LET s1 == get_credit_uc(st, charging_key)
             s2 == [s1 EXCEPT !.credit_map_[charging_key].credit =
                                add_used_credit(@, used_tx, used_rx),
                              !.uc.charging_credit_map[charging_key] =
                                add_deltas(@, used_tx, used_rx)]
         IN IF should_deactivate_service(s2.credit_map_[charging_key])
              THEN set_service_state(s2, charging_key, "SERVICE_NEEDS_DEACTIVATION")
              ELSE s2
    ELSE st

\* add_rule_usage that adds to the session-level monitor whatever the
\* monitoring key of the rule is
add_rule_usage_session_level_always(st, rule_id, used_tx, used_rx) ==
  LET s1 == add_charging_usage(st, rule_id, used_tx, used_rx)
      monitoring_key == get_monitoring_key_for_rule_id(s1, rule_id)
      s2 == IF monitoring_key # NoKey
              THEN add_to_monitor(s1, monitoring_key, used_tx, used_rx)
              ELSE s1
      s3 == IF s2.session_level_key_ # NoKey
              THEN add_to_monitor(s2, s2.session_level_key_, used_tx, used_rx)
              ELSE s2
  IN [(IF rule_id \in s3.dynamic_rules_
          \/ rule_id \in {s3.active_static_rules_[i] :
                            i \in 1..Len(s3.active_static_rules_)}
         THEN update_data_usage_metrics(s3, used_tx, used_rx)
         ELSE s3) EXCEPT !.ret = st.ret]

\* SessionState::add_rule_usage
add_rule_usage(st, rule_id, used_tx, used_rx) ==
  LET s1 == add_charging_usage(st, rule_id, used_tx, used_rx)
      monitoring_key == get_monitoring_key_for_rule_id(s1, rule_id)
      s2 == IF monitoring_key # NoKey
              THEN add_to_monitor(s1, monitoring_key, used_tx, used_rx)
              ELSE s1
      s3 == IF s2.session_level_key_ # NoKey
               /\ monitoring_key # s2.session_level_key_
              THEN add_to_monitor(s2, s2.session_level_key_, used_tx, used_rx)
              ELSE s2
  IN [(IF rule_id \in s3.dynamic_rules_
          \/ rule_id \in {s3.active_static_rules_[i] :
                            i \in 1..Len(s3.active_static_rules_)}
         THEN update_data_usage_metrics(s3, used_tx, used_rx)
         ELSE s3) EXCEPT !.ret = st.ret]

\* emit_credit_update without the increment of the request number
emit_credit_update_same_number(st, key, update_type) ==
  LET s1 == IF update_type = "REAUTH_REQUIRED"
              THEN set_reauth_state(st, key, "REAUTH_PROCESSING")
              ELSE st
      usage == unreported_usage(s1.credit_map_[key].credit)
  IN [s1 EXCEPT !.credit_map_[key].credit = get_usage_for_reporting(@),
                !.out = Append(@, Msg("credit", key, s1.request_number_,
                                      update_type, usage)),
                !.sent = Append(@, s1.request_number_)]

\* ChargingGrant::get_credit_usage followed by the emission of the
\* CreditUsageUpdate in get_charging_updates
emit_credit_update(st, key, update_type) ==
  LET s1 == IF update_type = "REAUTH_REQUIRED"
              THEN set_reauth_state(st, key, "REAUTH_PROCESSING")
              ELSE st
      usage == unreported_usage(s1.credit_map_[key].credit)
  IN [s1 EXCEPT !.credit_map_[key].credit = get_usage_for_reporting(@),
                !.out = Append(@, Msg("credit", key, s1.request_number_,
                                      update_type, usage)),
                !.sent = Append(@, s1.request_number_),
                !.request_number_ = @ + 1,
                !.uc.request_number_increment = @ + 1]

ServiceAction(type, key, redirect, restrict, ambr) ==
  [type |-> type, key |-> key, redirect_server |-> redirect,
   restrict_rules |-> restrict, ambr |-> ambr]

\* the cases ACTIVATE_SERVICE and TERMINATE_SERVICE of get_charging_updates
push_action(st, action, with_ambr) ==
  [st EXCEPT !.actions_out =
     Append(@, IF with_ambr THEN [action EXCEPT !.ambr = TRUE] ELSE action)]

\* the case RESTRICT_ACCESS of get_charging_updates, and what follows it
restrict_case(st, key, action) ==
  IF st.credit_map_[key].service_state = "SERVICE_RESTRICTED" THEN st
  ELSE push_action(set_service_state(st, key, "SERVICE_RESTRICTED"),
                   [action EXCEPT !.restrict_rules = TRUE], TRUE)

\* the case REDIRECT that ends with a break: the action is never pushed
redirect_case_with_break(st, key, action) ==
  IF st.credit_map_[key].service_state = "SERVICE_REDIRECTED" THEN st
  ELSE set_service_state(st, key, "SERVICE_REDIRECTED")

\* the case REDIRECT of get_charging_updates, and what follows it
redirect_case(st, key, action) ==
  IF st.credit_map_[key].service_state = "SERVICE_REDIRECTED" THEN st
  ELSE restrict_case(set_service_state(st, key, "SERVICE_REDIRECTED"), key,
                     [action EXCEPT !.redirect_server = TRUE])

\* one iteration of the loop of SessionState::get_charging_updates
charging_update(st, key) ==
  LET s1 == get_credit_uc(st, key)
      action_type == get_action_type(s1.credit_map_[key])
      after_action == get_action_state(s1.credit_map_[key])
      s2 == IF after_action # s1.credit_map_[key].service_state
              THEN set_service_state(s1, key, after_action)
              ELSE s1
      grant == s2.credit_map_[key]
      action == ServiceAction(action_type, key, FALSE, FALSE, FALSE)
  IN CASE action_type = "CONTINUE_SERVICE" ->
            IF get_update_type(grant) = "NONE" THEN s2
            ELSE emit_credit_update(s2, key, get_update_type(grant))
       [] action_type = "REDIRECT" -> redirect_case(s2, key, action)
       [] action_type = "RESTRICT_ACCESS" -> restrict_case(s2, key, action)
       [] action_type = "ACTIVATE_SERVICE" -> push_action(s2, action, TRUE)
       [] action_type = "TERMINATE_SERVICE" -> push_action(s2, action, FALSE)

RECURSIVE charging_loop(_, _)
charging_loop(st, keys) ==
  IF keys = {} THEN st
  ELSE LET key == CHOOSE k \in keys : TRUE
       IN charging_loop(charging_update(st, key), keys \ {key})

\* SessionState::get_charging_updates
get_charging_updates(st) == charging_loop(st, DOMAIN st.credit_map_)

\* one iteration of the loop of SessionState::get_monitor_updates
monitor_update(st, mkey) ==
  LET credit == st.monitor_map_[mkey].credit
      is_partially_exhausted == is_quota_exhausted(credit, USAGE_REPORTING_THRESHOLD)
      is_totally_exhausted == is_quota_exhausted(credit, TOTAL_EXHAUSTION)
  IN IF ~is_partially_exhausted
        \/ (~is_totally_exhausted /\ current_grant_contains_zero(credit))
       THEN st
       ELSE LET s1 == get_monitor_uc(st, mkey)
            IN [s1 EXCEPT !.monitor_map_[mkey].credit = get_usage_for_reporting(@),
                          !.out = Append(@, Msg("monitor", mkey, s1.request_number_,
                                                "USAGE_REPORT",
                                                unreported_usage(credit))),
                          !.sent = Append(@, s1.request_number_),
                          !.request_number_ = @ + 1,
                          !.uc.request_number_increment = @ + 1]

RECURSIVE monitor_loop(_, _)
monitor_loop(st, keys) ==
  IF keys = {} THEN st
  ELSE LET key == CHOOSE k \in keys : TRUE
       IN monitor_loop(monitor_update(st, key), keys \ {key})

\* SessionState::get_monitor_updates
get_monitor_updates(st) == monitor_loop(st, DOMAIN st.monitor_map_)

\* SessionState::set_event_trigger
set_event_trigger(st, trigger, value) ==
  [st EXCEPT !.pending_event_triggers_ = Put(@, trigger, value),
             !.uc.is_pending_event_triggers_updated = TRUE,
             !.uc.pending_event_triggers = Put(@, trigger, value)]

\* SessionState::add_new_event_trigger
add_new_event_trigger(st, trigger) == set_event_trigger(st, trigger, "PENDING")

\* SessionState::mark_event_trigger_as_triggered
mark_event_trigger_as_triggered(st, trigger) ==
  set_event_trigger(st, trigger, "READY")

\* SessionState::remove_event_trigger
remove_event_trigger(st, trigger) ==
  set_event_trigger([st EXCEPT !.pending_event_triggers_ = Erase(@, trigger)],
                    trigger, "CLEARED")

\* SessionState::get_event_trigger_updates
get_event_trigger_updates(st) ==
  IF Has(st.pending_event_triggers_, REVALIDATION_TIMEOUT)
     /\ st.pending_event_triggers_[REVALIDATION_TIMEOUT] = "READY"
    THEN remove_event_trigger(
           [st EXCEPT !.out = Append(@, Msg("event", NoKey, st.request_number_,
                                            REVALIDATION_TIMEOUT, NoUsage)),
                      !.sent = Append(@, st.request_number_),
                      !.request_number_ = @ + 1,
                      !.uc.request_number_increment = @ + 1],
           REVALIDATION_TIMEOUT)
    ELSE st

\* get_updates without the check of the session state
get_updates_in_any_state(st) ==
  get_event_trigger_updates(get_monitor_updates(get_charging_updates(st)))

\* SessionState::get_updates
get_updates(st) ==
  IF st.curr_state_ # "SESSION_ACTIVE" THEN st
  ELSE get_event_trigger_updates(get_monitor_updates(get_charging_updates(st)))

\* SessionState::mark_as_awaiting_termination
mark_as_awaiting_termination(st) ==
  set_fsm_state(st, "SESSION_TERMINATION_SCHEDULED")

\* one monitor of SessionState::make_termination_request
terminate_monitor(st, mkey) ==
  [get_monitor_uc(st, mkey) EXCEPT
     !.monitor_map_[mkey].credit = get_all_unreported_usage_for_reporting(@)]

\* one charging grant of SessionState::make_termination_request
terminate_credit(st, key) ==
  [get_credit_uc(st, key) EXCEPT
     !.credit_map_[key].credit = get_all_unreported_usage_for_reporting(@)]

RECURSIVE terminate_monitors(_, _)
terminate_monitors(st, keys) ==
  IF keys = {} THEN st
  ELSE LET key == CHOOSE k \in keys : TRUE
       IN terminate_monitors(terminate_monitor(st, key), keys \ {key})

RECURSIVE terminate_credits(_, _)
terminate_credits(st, keys) ==
  IF keys = {} THEN st
  ELSE LET key == CHOOSE k \in keys : TRUE
       IN terminate_credits(terminate_credit(st, key), keys \ {key})

\* SessionState::make_termination_request: the request is appended to out
make_termination_request(st) ==
  LET s1 == terminate_monitors(st, DOMAIN st.monitor_map_)
      s2 == terminate_credits(s1, DOMAIN s1.credit_map_)
  IN [s2 EXCEPT !.out = Append(@, Msg("terminate", NoKey, st.request_number_,
                                      "TERMINATED", NoUsage))]

\* SessionReporter::report_terminate_session, called by complete_termination
report_terminate_session(st) ==
  [st EXCEPT !.sent = Append(@, st.out[Len(st.out)].request_number),
             !.report_count = @ + 1]

\* complete_termination that terminates released sessions only
complete_termination_released_only(st) ==
  IF st.curr_state_ # "SESSION_RELEASED" THEN st
  ELSE report_terminate_session(
         make_termination_request(set_fsm_state(st, "SESSION_TERMINATED")))

\* complete_termination without the case SESSION_ACTIVE
complete_termination_of_active(st) ==
  IF st.curr_state_ = "SESSION_TERMINATED" THEN st
  ELSE report_terminate_session(
         make_termination_request(set_fsm_state(st, "SESSION_TERMINATED")))

\* complete_termination without the case SESSION_TERMINATED
complete_termination_again(st) ==
  IF st.curr_state_ = "SESSION_ACTIVE" THEN st
  ELSE report_terminate_session(
         make_termination_request(set_fsm_state(st, "SESSION_TERMINATED")))

\* SessionState::complete_termination
complete_termination(st) ==
  IF st.curr_state_ \in {"SESSION_ACTIVE", "SESSION_TERMINATED"} THEN st
  ELSE report_terminate_session(
         make_termination_request(set_fsm_state(st, "SESSION_TERMINATED")))

\* SessionState::reset_reporting_charging_credit
reset_reporting_charging_credit(st, key) ==
  IF ~Has(st.credit_map_, key) THEN [st EXCEPT !.ret = FALSE]
  ELSE [get_credit_uc(st, key) EXCEPT
          !.credit_map_[key].credit = reset_reporting_credit(@),
          !.ret = TRUE]

\* SessionState::reset_reporting_monitor
reset_reporting_monitor(st, key) ==
  IF ~Has(st.monitor_map_, key) THEN [st EXCEPT !.ret = FALSE]
  ELSE [get_monitor_uc(st, key) EXCEPT
          !.monitor_map_[key].credit = reset_reporting_credit(@),
          !.ret = TRUE]

\* SessionState::contains_credit
contains_credit(granted) == granted > 0

\* init_charging_credit that tracks the key of a failed response
init_charging_credit_of_any_response(st, update) ==
  LET charging_grant == receive_charging_grant(NewGrant, update)
  IN [st EXCEPT !.uc.charging_credit_to_install =
                   Put(@, update.key, charging_grant),
                !.credit_map_ = Put(@, update.key, charging_grant),
                !.ret = contains_credit(update.granted)]

\* SessionState::init_charging_credit
init_charging_credit(st, update) ==
  IF ~update.success THEN [st EXCEPT !.ret = FALSE]
  ELSE LET charging_grant == receive_charging_grant(NewGrant, update)
       IN [st EXCEPT !.uc.charging_credit_to_install =
                        Put(@, update.key, charging_grant),
                     !.credit_map_ = Put(@, update.key, charging_grant),
                     !.ret = contains_credit(update.granted)]

\* SessionState::receive_charging_credit
receive_charging_credit(st, update) ==
  IF ~Has(st.credit_map_, update.key) THEN init_charging_credit(st, update)
  ELSE LET key == update.key
           s1 == get_credit_uc(st, key)
       IN IF ~update.success
            THEN LET s2 == [s1 EXCEPT !.credit_map_[key].credit = mark_failure(@),
                                      !.ret = FALSE]
                 IN IF should_deactivate_service(s2.credit_map_[key])
                      THEN set_service_state(s2, key, "SERVICE_NEEDS_DEACTIVATION")
                      ELSE s2
            ELSE LET s2 == [s1 EXCEPT !.credit_map_[key] =
                                        receive_charging_grant(@, update),
                                      !.ret = contains_credit(update.granted)]
                     s3 == IF s2.credit_map_[key].reauth_state = "REAUTH_PROCESSING"
                             THEN set_reauth_state(s2, key, "REAUTH_NOT_NEEDED")
                             ELSE s2
                 IN IF ~is_quota_exhausted(s3.credit_map_[key].credit,
                                           TOTAL_EXHAUSTION)
                       /\ s3.credit_map_[key].service_state # "SERVICE_ENABLED"
                      THEN set_service_state(s3, key, "SERVICE_NEEDS_ACTIVATION")
                      ELSE s3

\* reauth_key that does not look at the report in flight
reauth_key_while_reporting(st, key) ==
  IF Has(st.credit_map_, key)
    THEN [st EXCEPT
            !.credit_map_[key].reauth_state = "REAUTH_REQUIRED",
            !.uc.charging_credit_map =
               Put(@, key, [grant_update_criteria(st.credit_map_[key])
                              EXCEPT !.reauth_state = "REAUTH_REQUIRED"]),
            !.ret = TRUE]
    ELSE LET grant == [NewGrant EXCEPT !.reauth_state = "REAUTH_REQUIRED",
                                       !.service_state = "SERVICE_DISABLED"]
         IN [st EXCEPT !.uc.charging_credit_to_install = Put(@, key, grant),
                       !.credit_map_ = Put(@, key, grant),
                       !.ret = TRUE]

\* SessionState::reauth_key; ret is TRUE for UPDATE_INITIATED
reauth_key(st, key) ==
  IF Has(st.credit_map_, key)
    THEN IF is_reporting(st.credit_map_[key].credit)
           THEN [st EXCEPT !.ret = FALSE]
           ELSE [st EXCEPT
                   !.credit_map_[key].reauth_state = "REAUTH_REQUIRED",
                   !.uc.charging_credit_map =
                      Put(@, key, [grant_update_criteria(st.credit_map_[key])
                                     EXCEPT !.reauth_state = "REAUTH_REQUIRED"]),
                   !.ret = TRUE]
    ELSE LET grant == [NewGrant EXCEPT !.reauth_state = "REAUTH_REQUIRED",
                                       !.service_state = "SERVICE_DISABLED"]
         IN [st EXCEPT !.uc.charging_credit_to_install = Put(@, key, grant),
                       !.credit_map_ = Put(@, key, grant),
                       !.ret = TRUE]

\* one iteration of the loop of SessionState::reauth_all
reauth_grant(st, key) ==
  IF is_reporting(st.credit_map_[key].credit) THEN st
  ELSE [st EXCEPT
          !.uc.charging_credit_map =
             Put(@, key, [grant_update_criteria(st.credit_map_[key])
                            EXCEPT !.reauth_state = "REAUTH_REQUIRED"]),
          !.credit_map_[key].reauth_state = "REAUTH_REQUIRED",
          !.ret = TRUE]

RECURSIVE reauth_all_loop(_, _)
reauth_all_loop(st, keys) ==
  IF keys = {} THEN st
  ELSE LET key == CHOOSE k \in keys : TRUE
       IN reauth_all_loop(reauth_grant(st, key), keys \ {key})

\* SessionState::reauth_all; ret is TRUE for UPDATE_INITIATED
reauth_all(st) ==
  reauth_all_loop([st EXCEPT !.ret = FALSE], DOMAIN st.credit_map_)

\* SessionState::update_session_level_key
update_session_level_key(st, update) ==
  LET new_key == IF update.action = "DISABLE" THEN NoKey ELSE update.key
  IN [st EXCEPT !.session_level_key_ = new_key,
                !.uc.is_session_level_key_updated = TRUE,
                !.uc.updated_session_level_key = new_key]

\* SessionState::init_new_monitor
init_new_monitor(st, update) ==
  IF ~update.success \/ update.action = "DISABLE" THEN [st EXCEPT !.ret = FALSE]
  ELSE LET monitor == [NewMonitor(update.level) EXCEPT
                         !.credit = receive_credit(@, update.granted)]
       IN [st EXCEPT !.uc.monitor_credit_to_install = Put(@, update.key, monitor),
                     !.monitor_map_ = Put(@, update.key, monitor),
                     !.ret = TRUE]

\* SessionState::receive_monitor
receive_monitor(st, update) ==
  IF ~update.has_credit THEN [st EXCEPT !.ret = TRUE]
  ELSE LET s1 == IF update.success /\ update.level = "SESSION_LEVEL"
                   THEN update_session_level_key(st, update)
                   ELSE st
           mkey == update.key
       IN IF Has(s1.uc.monitor_credit_map, mkey)
             /\ s1.uc.monitor_credit_map[mkey].deleted
            THEN [s1 EXCEPT !.ret = FALSE]
          ELSE IF ~Has(s1.monitor_map_, mkey) THEN init_new_monitor(s1, update)
          ELSE IF ~update.success
            THEN [get_monitor_uc(s1, mkey) EXCEPT
                    !.monitor_map_[mkey].credit = mark_failure(@),
                    !.ret = FALSE]
          ELSE [get_monitor_uc(s1, mkey) EXCEPT
                  !.monitor_map_[mkey].credit = receive_credit(@, update.granted),
                  !.ret = TRUE]

\* ------------------------------------------------------------------------
\* Rule stores of a session: the active static rule list (a vector), the
\* scheduled static rule set, the active and the scheduled dynamic rule store
\* (a store holds a rule under its id), and the table of rule lifetimes
\* ------------------------------------------------------------------------
\* the rule ids a vector holds
Range(seq) == {seq[i] : i \in 1..Len(seq)}

\* std::find followed by std::vector::erase: the first occurrence is removed
RECURSIVE erase_first(_, _)
erase_first(seq, x) ==
  IF seq = <<>> THEN <<>>
  ELSE IF Head(seq) = x THEN Tail(seq)
  ELSE <<Head(seq)>> \o erase_first(Tail(seq), x)

\* the rule ids of a set in the order a traversal visits them
in_order(ids) == SelectSeq(RuleOrder, LAMBDA r : r \in ids)

\* what RulesToProcess holds before a call
RulesToProcess == [static_rules |-> <<>>, dynamic_rules |-> <<>>]

\* SessionState::is_dynamic_rule_scheduled
is_dynamic_rule_scheduled(st, rule_id) == rule_id \in st.scheduled_dynamic_rules_

\* SessionState::is_static_rule_scheduled
is_static_rule_scheduled(st, rule_id) == rule_id \in st.scheduled_static_rules_

\* SessionState::is_dynamic_rule_installed
is_dynamic_rule_installed(st, rule_id) == rule_id \in st.dynamic_rules_

\* SessionState::is_static_rule_installed
is_static_rule_installed(st, rule_id) == rule_id \in Range(st.active_static_rules_)

\* SessionState::insert_dynamic_rule
insert_dynamic_rule(st, rule_id, lifetime) ==
  IF is_dynamic_rule_installed(st, rule_id) THEN st
  ELSE [st EXCEPT !.rule_lifetimes_ = Put(@, rule_id, lifetime),
                  !.dynamic_rules_ = @ \cup {rule_id},
                  !.uc.dynamic_rules_to_install = Append(@, rule_id),
                  !.uc.new_rule_lifetimes = Put(@, rule_id, lifetime)]

\* SessionState::activate_static_rule
activate_static_rule(st, rule_id, lifetime) ==
  [st EXCEPT !.rule_lifetimes_ = Put(@, rule_id, lifetime),
             !.active_static_rules_ = Append(@, rule_id),
             !.uc.static_rules_to_install = @ \cup {rule_id},
             !.uc.new_rule_lifetimes = Put(@, rule_id, lifetime)]

\* SessionState::remove_dynamic_rule
remove_dynamic_rule(st, rule_id) ==
  IF rule_id \in st.dynamic_rules_
    THEN [st EXCEPT !.dynamic_rules_ = @ \ {rule_id},
                    !.uc.dynamic_rules_to_uninstall = @ \cup {rule_id},
                    !.ret = TRUE]
    ELSE [st EXCEPT !.ret = FALSE]

\* SessionState::remove_scheduled_dynamic_rule
remove_scheduled_dynamic_rule(st, rule_id) ==
  IF rule_id \in st.scheduled_dynamic_rules_
    THEN [st EXCEPT !.scheduled_dynamic_rules_ = @ \ {rule_id},
                    !.uc.dynamic_rules_to_uninstall = @ \cup {rule_id},
                    !.ret = TRUE]
    ELSE [st EXCEPT !.ret = FALSE]

\* deactivate_static_rule that journals the uninstall and erases nothing
deactivate_static_rule_journal_only(st, rule_id) ==
  IF rule_id \notin Range(st.active_static_rules_) THEN [st EXCEPT !.ret = FALSE]
  ELSE [st EXCEPT !.uc.static_rules_to_uninstall = @ \cup {rule_id},
                  !.ret = TRUE]

\* SessionState::deactivate_static_rule
deactivate_static_rule(st, rule_id) ==
  IF rule_id \notin Range(st.active_static_rules_) THEN [st EXCEPT !.ret = FALSE]
  ELSE [st EXCEPT !.uc.static_rules_to_uninstall = @ \cup {rule_id},
                  !.active_static_rules_ = erase_first(@, rule_id),
                  !.ret = TRUE]

\* SessionState::deactivate_scheduled_static_rule
deactivate_scheduled_static_rule(st, rule_id) ==
  IF rule_id \notin st.scheduled_static_rules_ THEN [st EXCEPT !.ret = FALSE]
  ELSE [st EXCEPT !.scheduled_static_rules_ = @ \ {rule_id}, !.ret = TRUE]

\* SessionState::schedule_dynamic_rule
schedule_dynamic_rule(st, rule_id, lifetime) ==
  [st EXCEPT !.uc.new_rule_lifetimes = Put(@, rule_id, lifetime),
             !.uc.new_scheduled_dynamic_rules = Append(@, rule_id),
             !.rule_lifetimes_ = Put(@, rule_id, lifetime),
             !.scheduled_dynamic_rules_ = @ \cup {rule_id}]

\* SessionState::schedule_static_rule
schedule_static_rule(st, rule_id, lifetime) ==
  [st EXCEPT !.uc.new_rule_lifetimes = Put(@, rule_id, lifetime),
             !.uc.new_scheduled_static_rules = @ \cup {rule_id},
             !.rule_lifetimes_ = Put(@, rule_id, lifetime),
             !.scheduled_static_rules_ = @ \cup {rule_id}]

\* SessionState::install_scheduled_dynamic_rule
install_scheduled_dynamic_rule(st, rule_id) ==
  IF rule_id \notin st.scheduled_dynamic_rules_ THEN st
  ELSE [st EXCEPT !.scheduled_dynamic_rules_ = @ \ {rule_id},
                  !.uc.dynamic_rules_to_install = Append(@, rule_id),
                  !.dynamic_rules_ = @ \cup {rule_id}]

\* install_scheduled_static_rule that leaves the rule in the scheduled set
install_scheduled_static_rule_still_scheduled(st, rule_id) ==
  [st EXCEPT !.uc.static_rules_to_install = @ \cup {rule_id},
             !.active_static_rules_ = Append(@, rule_id)]

\* SessionState::install_scheduled_static_rule: a rule that is not scheduled
\* is logged as an error, and the call goes on
install_scheduled_static_rule(st, rule_id) ==
  [st EXCEPT !.uc.static_rules_to_install = @ \cup {rule_id},
             !.scheduled_static_rules_ = @ \ {rule_id},
             !.active_static_rules_ = Append(@, rule_id)]

\* rule_lifetimes_[rule_id]: the value read
lifetime_of(st, rule_id) ==
  IF Has(st.rule_lifetimes_, rule_id) THEN st.rule_lifetimes_[rule_id]
  ELSE NoLifetime

\* rule_lifetimes_[rule_id]: operator[] inserts an entry for a missing key
with_lifetime_entry(st, rule_id) ==
  IF Has(st.rule_lifetimes_, rule_id) THEN st
  ELSE [st EXCEPT !.rule_lifetimes_ = Put(@, rule_id, NoLifetime)]

\* should_rule_be_active with the deactivation time excluded from the window
should_rule_be_active_before_deactivation(st, rule_id, time) ==
  LET lifetime == lifetime_of(st, rule_id)
      deactivated == lifetime.deactivation_time > 0
                     /\ lifetime.deactivation_time <= time
  IN lifetime.activation_time < time /\ ~deactivated

\* SessionState::should_rule_be_active
should_rule_be_active(st, rule_id, time) ==
  LET lifetime == lifetime_of(st, rule_id)
      deactivated == lifetime.deactivation_time > 0
                     /\ lifetime.deactivation_time < time
  IN lifetime.activation_time < time /\ ~deactivated

\* SessionState::should_rule_be_deactivated
should_rule_be_deactivated(st, rule_id, time) ==
  LET lifetime == lifetime_of(st, rule_id)
  IN lifetime.deactivation_time > 0 /\ lifetime.deactivation_time < time

\* the loop of sync_rules_to_time over active_static_rules_.  The range-for
\* keeps the end it read before the first pass while deactivate_static_rule
\* erases from the vector: the iterator at position i moves on to i + 1 over
\* the elements that have shifted down, and up to the old end n it reads
\* strings the erase has destroyed, each read yielding stale
RECURSIVE sync_active_static_rules(_, _, _, _, _)
sync_active_static_rules(st, i, n, current_time, stale) ==
  IF i > n THEN st
  ELSE LET rule_id == IF i <= Len(st.active_static_rules_)
                        THEN st.active_static_rules_[i]
                        ELSE stale
           s1 == with_lifetime_entry(st, rule_id)
           s2 == IF should_rule_be_deactivated(s1, rule_id, current_time)
                   THEN deactivate_static_rule(s1, rule_id)
                   ELSE s1
       IN sync_active_static_rules(s2, i + 1, n, current_time, stale)

\* the loop of sync_rules_to_time over a copy of scheduled_static_rules_
RECURSIVE sync_scheduled_static_rules(_, _, _)
sync_scheduled_static_rules(st, rule_ids, current_time) ==
  IF rule_ids = <<>> THEN st
  ELSE LET rule_id == Head(rule_ids)
           s1 == with_lifetime_entry(st, rule_id)
           s2 == IF should_rule_be_active(s1, rule_id, current_time)
                   THEN install_scheduled_static_rule(s1, rule_id)
                 ELSE IF should_rule_be_deactivated(s1, rule_id, current_time)
                   THEN [s1 EXCEPT !.scheduled_static_rules_ = @ \ {rule_id},
                                   !.uc.static_rules_to_uninstall = @ \cup {rule_id}]
                 ELSE s1
       IN sync_scheduled_static_rules(s2, Tail(rule_ids), current_time)

\* the loop of sync_rules_to_time over the ids of dynamic_rules_
RECURSIVE sync_active_dynamic_rules(_, _, _)
sync_active_dynamic_rules(st, rule_ids, current_time) ==
  IF rule_ids = <<>> THEN st
  ELSE LET rule_id == Head(rule_ids)
           s1 == with_lifetime_entry(st, rule_id)
           s2 == IF should_rule_be_deactivated(s1, rule_id, current_time)
                   THEN remove_dynamic_rule(s1, rule_id)
                   ELSE s1
       IN sync_active_dynamic_rules(s2, Tail(rule_ids), current_time)

\* the loop of sync_rules_to_time over the ids of scheduled_dynamic_rules_
RECURSIVE sync_scheduled_dynamic_rules(_, _, _)
sync_scheduled_dynamic_rules(st, rule_ids, current_time) ==
  IF rule_ids = <<>> THEN st
  ELSE LET rule_id == Head(rule_ids)
           s1 == with_lifetime_entry(st, rule_id)
           s2 == IF should_rule_be_active(s1, rule_id, current_time)
                   THEN install_scheduled_dynamic_rule(s1, rule_id)
                 ELSE IF should_rule_be_deactivated(s1, rule_id, current_time)
                   THEN remove_scheduled_dynamic_rule(s1, rule_id)
                 ELSE s1
       IN sync_scheduled_dynamic_rules(s2, Tail(rule_ids), current_time)

\* SessionState::sync_rules_to_time; it returns nothing
sync_rules_to_time(st, current_time, stale) ==
  LET s1 == sync_active_static_rules(st, 1, Len(st.active_static_rules_),
                                     current_time, stale)
      s2 == sync_scheduled_static_rules(s1, in_order(s1.scheduled_static_rules_),
                                        current_time)
      s3 == sync_active_dynamic_rules(s2, in_order(s2.dynamic_rules_),
                                      current_time)
      s4 == sync_scheduled_dynamic_rules(s3, in_order(s3.scheduled_dynamic_rules_),
                                         current_time)
  IN [s4 EXCEPT !.ret = st.ret]

\* apply_session_static_rule_set: the rules of the set that are not installed
RECURSIVE install_static_rule_set(_, _)
install_static_rule_set(st, rule_ids) ==
  IF rule_ids = <<>> THEN st
  ELSE LET rule_id == Head(rule_ids)
           s1 == IF ~is_static_rule_installed(st, rule_id)
                   THEN [activate_static_rule(st, rule_id, NoLifetime) EXCEPT
                           !.rules_to_activate.static_rules = Append(@, rule_id)]
                   ELSE st
       IN install_static_rule_set(s1, Tail(rule_ids))

\* apply_session_static_rule_set: the removal of the rules to deactivate
RECURSIVE deactivate_static_rules(_, _)
deactivate_static_rules(st, rule_ids) ==
  IF rule_ids = <<>> THEN st
  ELSE deactivate_static_rules(deactivate_static_rule(st, Head(rule_ids)),
                               Tail(rule_ids))

\* SessionState::apply_session_static_rule_set
apply_session_static_rule_set(st, static_rules) ==
  LET s1 == install_static_rule_set(st, in_order(static_rules))
      s2 == [s1 EXCEPT !.rules_to_deactivate.static_rules =
               @ \o SelectSeq(s1.active_static_rules_,
                              LAMBDA r : r \notin static_rules)]
      s3 == deactivate_static_rules(s2, s2.rules_to_deactivate.static_rules)
  IN [s3 EXCEPT !.ret = st.ret]

\* apply_session_dynamic_rule_set: the rules of the set that are not installed
RECURSIVE install_dynamic_rule_set(_, _)
install_dynamic_rule_set(st, rule_ids) ==
  IF rule_ids = <<>> THEN st
  ELSE LET rule_id == Head(rule_ids)
           s1 == IF ~is_dynamic_rule_installed(st, rule_id)
                   THEN [insert_dynamic_rule(st, rule_id, NoLifetime) EXCEPT
                           !.rules_to_activate.dynamic_rules = Append(@, rule_id)]
                   ELSE st
       IN install_dynamic_rule_set(s1, Tail(rule_ids))

\* apply_session_dynamic_rule_set: the removal of the active rules that are
\* not in the set
RECURSIVE remove_dynamic_rules_not_in(_, _, _)
remove_dynamic_rules_not_in(st, rule_ids, dynamic_rules) ==
  IF rule_ids = <<>> THEN st
  ELSE LET rule_id == Head(rule_ids)
           s1 == IF rule_id \notin dynamic_rules
                   THEN [remove_dynamic_rule(st, rule_id) EXCEPT
                           !.rules_to_deactivate.dynamic_rules = Append(@, rule_id)]
                   ELSE st
       IN remove_dynamic_rules_not_in(s1, Tail(rule_ids), dynamic_rules)

\* SessionState::apply_session_dynamic_rule_set
apply_session_dynamic_rule_set(st, dynamic_rules) ==
  LET s1 == install_dynamic_rule_set(st, in_order(dynamic_rules))
      s2 == remove_dynamic_rules_not_in(s1, in_order(s1.dynamic_rules_),
                                        dynamic_rules)
  IN [s2 EXCEPT !.ret = st.ret]

\* SessionState::apply_session_rule_set
apply_session_rule_set(st, rule_set) ==
  apply_session_dynamic_rule_set(
    apply_session_static_rule_set(st, rule_set.static_rules),
    rule_set.dynamic_rules)

\* ------------------------------------------------------------------------
\* The gy dynamic rule store and the active restrict rules
\* ------------------------------------------------------------------------
\* the gy dynamic rule and the restrict rule a final action installs
GyDynamicRules == {"g1"}
RestrictRules == {"x1"}

\* SessionState::is_gy_dynamic_rule_installed
is_gy_dynamic_rule_installed(st, rule_id) == rule_id \in st.gy_dynamic_rules_

\* is_restrict_rule_installed that finds no rule
is_restrict_rule_installed_never(st, rule_id) == FALSE

\* SessionState::is_restrict_rule_installed
is_restrict_rule_installed(st, rule_id) ==
  rule_id \in Range(st.active_restrict_rules_)

\* SessionState::insert_gy_dynamic_rule
insert_gy_dynamic_rule(st, rule_id, lifetime) ==
  IF is_gy_dynamic_rule_installed(st, rule_id) THEN st
  ELSE [st EXCEPT !.rule_lifetimes_ = Put(@, rule_id, lifetime),
                  !.gy_dynamic_rules_ = @ \cup {rule_id},
                  !.uc.gy_dynamic_rules_to_install = Append(@, rule_id),
                  !.uc.new_rule_lifetimes = Put(@, rule_id, lifetime)]

\* SessionState::remove_gy_dynamic_rule
remove_gy_dynamic_rule(st, rule_id) ==
  IF rule_id \in st.gy_dynamic_rules_
    THEN [st EXCEPT !.gy_dynamic_rules_ = @ \ {rule_id},
                    !.uc.gy_dynamic_rules_to_uninstall = @ \cup {rule_id},
                    !.ret = TRUE]
    ELSE [st EXCEPT !.ret = FALSE]

\* SessionState::activate_restrict_rule
activate_restrict_rule(st, rule_id, lifetime) ==
  [st EXCEPT !.rule_lifetimes_ = Put(@, rule_id, lifetime),
             !.active_restrict_rules_ = Append(@, rule_id),
             !.uc.restrict_rules_to_install = @ \cup {rule_id},
             !.uc.new_rule_lifetimes = Put(@, rule_id, lifetime)]

\* SessionState::deactivate_restrict_rule
deactivate_restrict_rule(st, rule_id) ==
  IF rule_id \notin Range(st.active_restrict_rules_)
    THEN [st EXCEPT !.ret = FALSE]
    ELSE [st EXCEPT !.uc.restrict_rules_to_uninstall = @ \cup {rule_id},
                    !.active_restrict_rules_ = erase_first(@, rule_id),
                    !.ret = TRUE]

\* ------------------------------------------------------------------------
\* QoS and bearer management: the dedicated bearers of the rules of a session
\* ------------------------------------------------------------------------
PolicyType == {"STATIC", "DYNAMIC"}
\* the empty optional of get_policy_type
NoPolicyType == "NONE"
PolicyID(policy_type, rule_id) == <<policy_type, rule_id>>

\* SessionState::get_policy_type
get_policy_type(st, rule_id) ==
  IF is_static_rule_installed(st, rule_id) THEN "STATIC"
  ELSE IF is_dynamic_rule_installed(st, rule_id) THEN "DYNAMIC"
  ELSE NoPolicyType

\* bind_policy_to_bearer that does not look for the rule among the installed
bind_policy_to_bearer_of_any_rule(st, request) ==
  LET policy_type == IF request.policy_rule_id \in DynamicRules
                       THEN "DYNAMIC" ELSE "STATIC"
      bound == Put(st.bearer_id_by_policy_,
                   PolicyID(policy_type, request.policy_rule_id),
                   request.bearer_id)
  IN [st EXCEPT !.bearer_id_by_policy_ = bound,
                !.uc.is_bearer_mapping_updated = TRUE,
                !.uc.bearer_id_by_policy = bound]

\* SessionState::bind_policy_to_bearer
bind_policy_to_bearer(st, request) ==
  LET policy_type == get_policy_type(st, request.policy_rule_id)
      bound == Put(st.bearer_id_by_policy_,
                   PolicyID(policy_type, request.policy_rule_id),
                   request.bearer_id)
  IN IF policy_type = NoPolicyType THEN st
     ELSE [st EXCEPT !.bearer_id_by_policy_ = bound,
                     !.uc.is_bearer_mapping_updated = TRUE,
                     !.uc.bearer_id_by_policy = bound]

\* the PolicyRule of a rule id in the static rule store or, for a dynamic
\* rule, in the dynamic rule store of the session
rule_qos(policy_type, rule_id) ==
  IF policy_type = "STATIC" THEN static_qos[rule_id] ELSE dynamic_qos[rule_id]

\* SessionState::policy_has_qos
policy_has_qos(st, policy_type, rule_id) ==
  IF policy_type = "STATIC"
    THEN rule_id \in StaticRules /\ static_qos[rule_id].has_qos
    ELSE rule_id \in st.dynamic_rules_ /\ dynamic_qos[rule_id].has_qos

\* update_bearer_creation_req that asks for a bearer whatever the QCI is
update_bearer_creation_req_any_qci(st, policy_type, rule_id) ==
  IF ~st.config_.has_lte_context THEN st
  ELSE IF Has(st.bearer_id_by_policy_, PolicyID(policy_type, rule_id)) THEN st
  ELSE IF ~policy_has_qos(st, policy_type, rule_id) THEN st
  ELSE [st EXCEPT
          !.update.needs_creation = TRUE,
          !.update.create_req.link_bearer_id =
             IF st.update.needs_creation THEN @ ELSE st.config_.bearer_id,
          !.update.create_req.policy_rules = Append(@, rule_id)]

\* SessionState::update_bearer_creation_req
update_bearer_creation_req(st, policy_type, rule_id) ==
  IF ~st.config_.has_lte_context THEN st
  ELSE IF Has(st.bearer_id_by_policy_, PolicyID(policy_type, rule_id)) THEN st
  ELSE IF ~policy_has_qos(st, policy_type, rule_id) THEN st
  ELSE IF rule_qos(policy_type, rule_id).qci = st.config_.qos_class_id THEN st
  ELSE [st EXCEPT
          !.update.needs_creation = TRUE,
          !.update.create_req.link_bearer_id =
             IF st.update.needs_creation THEN @ ELSE st.config_.bearer_id,
          !.update.create_req.policy_rules = Append(@, rule_id)]

\* SessionState::update_bearer_deletion_req
update_bearer_deletion_req(st, policy_type, rule_id) ==
  IF ~st.config_.has_lte_context THEN st
  ELSE IF ~Has(st.bearer_id_by_policy_, PolicyID(policy_type, rule_id)) THEN st
  ELSE LET bearer_id_to_delete ==
             st.bearer_id_by_policy_[PolicyID(policy_type, rule_id)]
           erased == Erase(st.bearer_id_by_policy_, PolicyID(policy_type, rule_id))
       IN [st EXCEPT
             !.bearer_id_by_policy_ = erased,
             !.uc.is_bearer_mapping_updated = TRUE,
             !.uc.bearer_id_by_policy = erased,
             !.update.needs_deletion = TRUE,
             !.update.delete_req.link_bearer_id =
                IF st.update.needs_deletion THEN @ ELSE st.config_.bearer_id,
             !.update.delete_req.eps_bearer_ids = Append(@, bearer_id_to_delete)]

\* the loops of get_dedicated_bearer_updates
RECURSIVE bearer_creation_loop(_, _, _)
bearer_creation_loop(st, policy_type, rule_ids) ==
  IF rule_ids = <<>> THEN st
  ELSE bearer_creation_loop(
         update_bearer_creation_req(st, policy_type, Head(rule_ids)),
         policy_type, Tail(rule_ids))

RECURSIVE bearer_deletion_loop(_, _, _)
bearer_deletion_loop(st, policy_type, rule_ids) ==
  IF rule_ids = <<>> THEN st
  ELSE bearer_deletion_loop(
         update_bearer_deletion_req(st, policy_type, Head(rule_ids)),
         policy_type, Tail(rule_ids))

\* SessionState::get_dedicated_bearer_updates; the BearerUpdate it returns is
\* the field update
get_dedicated_bearer_updates(st, rules_to_activate, rules_to_deactivate) ==
  LET s0 == [st EXCEPT !.update = NewBearerUpdate]
      s1 == bearer_creation_loop(s0, "STATIC", rules_to_activate.static_rules)
      s2 == bearer_creation_loop(s1, "DYNAMIC", rules_to_activate.dynamic_rules)
      s3 == bearer_deletion_loop(s2, "STATIC", rules_to_deactivate.static_rules)
  IN bearer_deletion_loop(s3, "DYNAMIC", rules_to_deactivate.dynamic_rules)

\* apply_update_criteria: the merge of one rule of the journal uc.  The
\* operations it calls write to a journal that is thrown away, and what they
\* return is not looked at; ret = FALSE is the failure of the merge
merge_rule(st, uc, entry, rule_id) ==
  LET failed == [st EXCEPT !.ret = FALSE]
      lifetime == IF Has(uc.new_rule_lifetimes, rule_id)
                    THEN uc.new_rule_lifetimes[rule_id]
                    ELSE NoLifetime
      merged ==
        CASE entry = "static_rules_to_install" ->
               IF is_static_rule_installed(st, rule_id) THEN failed
               ELSE IF Has(uc.new_rule_lifetimes, rule_id)
                 THEN activate_static_rule(st, rule_id, lifetime)
               ELSE IF is_static_rule_scheduled(st, rule_id)
                 THEN install_scheduled_static_rule(st, rule_id)
               ELSE failed
          [] entry = "static_rules_to_uninstall" ->
               IF is_static_rule_installed(st, rule_id)
                 THEN deactivate_static_rule(st, rule_id)
               ELSE IF is_static_rule_scheduled(st, rule_id)
                 THEN deactivate_static_rule(
                        install_scheduled_static_rule(st, rule_id), rule_id)
               ELSE failed
          [] entry = "new_scheduled_static_rules" ->
               IF is_static_rule_scheduled(st, rule_id) THEN failed
               ELSE schedule_static_rule(st, rule_id, lifetime)
          [] entry = "dynamic_rules_to_install" ->
               IF is_dynamic_rule_installed(st, rule_id) THEN failed
               ELSE IF Has(uc.new_rule_lifetimes, rule_id)
                 THEN insert_dynamic_rule(st, rule_id, lifetime)
               ELSE IF is_dynamic_rule_scheduled(st, rule_id)
                 THEN install_scheduled_dynamic_rule(st, rule_id)
               ELSE failed
          [] entry = "dynamic_rules_to_uninstall" ->
               IF is_dynamic_rule_installed(st, rule_id)
                 THEN [st EXCEPT !.dynamic_rules_ = @ \ {rule_id}]
               ELSE IF is_dynamic_rule_scheduled(st, rule_id)
                 THEN [install_scheduled_static_rule(st, rule_id) EXCEPT
                         !.dynamic_rules_ = @ \ {rule_id}]
               ELSE failed
          [] entry = "new_scheduled_dynamic_rules" ->
               IF is_dynamic_rule_scheduled(st, rule_id) THEN failed
               ELSE schedule_dynamic_rule(st, rule_id, lifetime)
          [] entry = "gy_dynamic_rules_to_install" ->
               IF is_gy_dynamic_rule_installed(st, rule_id) THEN failed
               ELSE IF Has(uc.new_rule_lifetimes, rule_id)
                 THEN insert_gy_dynamic_rule(st, rule_id, lifetime)
               ELSE failed
          [] entry = "gy_dynamic_rules_to_uninstall" ->
               IF is_gy_dynamic_rule_installed(st, rule_id)
                 THEN [st EXCEPT !.gy_dynamic_rules_ = @ \ {rule_id}]
               ELSE failed
          [] entry = "restrict_rules_to_install" ->
               IF is_restrict_rule_installed(st, rule_id) THEN failed
               ELSE IF Has(uc.new_rule_lifetimes, rule_id)
                 THEN activate_restrict_rule(st, rule_id, lifetime)
               ELSE failed
          [] entry = "restrict_rules_to_uninstall" ->
               IF is_restrict_rule_installed(st, rule_id)
                 THEN deactivate_restrict_rule(st, rule_id)
               ELSE failed
  IN IF merged = failed THEN failed ELSE [merged EXCEPT !.ret = TRUE]

\* apply_update_criteria: one loop over an entry of the journal, left at the
\* first rule whose merge fails
RECURSIVE merge_rules(_, _, _, _)
merge_rules(st, uc, entry, rule_ids) ==
  IF rule_ids = <<>> \/ ~st.ret THEN st
  ELSE merge_rules(merge_rule(st, uc, entry, Head(rule_ids)), uc, entry,
                   Tail(rule_ids))

\* m with the entries of the map to_install put over its own
Installed(m, to_install) ==
  [k \in DOMAIN m \cup DOMAIN to_install |->
     IF Has(to_install, k) THEN to_install[k] ELSE m[k]]

\* SessionState::apply_charging_credit_update: the grant of a journal entry
\* is erased, or its credit takes the bucket deltas and the grant the reauth
\* state and the service state of the entry.  The final-unit fields of the
\* entry are not part of the journal here
apply_charging_credit_update(st, key, credit_update) ==
  IF ~Has(st.credit_map_, key) THEN st
  ELSE IF credit_update.deleted THEN [st EXCEPT !.credit_map_ = Erase(@, key)]
  ELSE [st EXCEPT !.credit_map_[key].credit =
                    add_used_credit(@, credit_update.bucket_deltas.used_tx,
                                    credit_update.bucket_deltas.used_rx),
                  !.credit_map_[key].reauth_state = credit_update.reauth_state,
                  !.credit_map_[key].service_state = credit_update.service_state]

RECURSIVE apply_charging_credit_updates(_, _, _)
apply_charging_credit_updates(st, uc, keys) ==
  IF keys = {} THEN st
  ELSE LET key == CHOOSE k \in keys : TRUE
       IN apply_charging_credit_updates(
            apply_charging_credit_update(st, key, uc.charging_credit_map[key]),
            uc, keys \ {key})

\* SessionState::apply_monitor_updates: the credit of the monitor takes the
\* bucket deltas of the entry
apply_monitor_updates(st, key, update) ==
  IF ~Has(st.monitor_map_, key) THEN st
  ELSE [st EXCEPT !.monitor_map_[key].credit =
                    add_used_credit(@, update.bucket_deltas.used_tx,
                                    update.bucket_deltas.used_rx)]

RECURSIVE apply_monitor_updates_loop(_, _, _)
apply_monitor_updates_loop(st, uc, keys) ==
  IF keys = {} THEN st
  ELSE LET key == CHOOSE k \in keys : TRUE
       IN apply_monitor_updates_loop(
            apply_monitor_updates(st, key, uc.monitor_credit_map[key]),
            uc, keys \ {key})

\* SessionState::apply_update_criteria; ret is what it returns.  The merge
\* stops at the first rule that cannot be merged and leaves the session as
\* merged so far
apply_update_criteria(st, uc) ==
  LET s1 == [st EXCEPT !.ret = TRUE,
                       !.curr_state_ = IF uc.is_fsm_updated
                                         THEN uc.updated_fsm_state ELSE @]
      s2 == IF uc.is_pending_event_triggers_updated
              THEN [s1 EXCEPT !.pending_event_triggers_ =
                      [t \in DOMAIN @ \cup DOMAIN uc.pending_event_triggers |->
                         IF Has(uc.pending_event_triggers, t)
                           THEN uc.pending_event_triggers[t] ELSE @[t]]]
              ELSE s1
      s2b == IF uc.is_bearer_mapping_updated
               THEN [s2 EXCEPT !.bearer_id_by_policy_ = uc.bearer_id_by_policy]
               ELSE s2
      s3 == merge_rules(s2b, uc, "static_rules_to_install",
                        in_order(uc.static_rules_to_install))
      s4 == merge_rules(s3, uc, "static_rules_to_uninstall",
                        in_order(uc.static_rules_to_uninstall))
      s5 == merge_rules(s4, uc, "new_scheduled_static_rules",
                        in_order(uc.new_scheduled_static_rules))
      s6 == merge_rules(s5, uc, "dynamic_rules_to_install",
                        uc.dynamic_rules_to_install)
      s7 == merge_rules(s6, uc, "dynamic_rules_to_uninstall",
                        in_order(uc.dynamic_rules_to_uninstall))
      s8 == merge_rules(s7, uc, "new_scheduled_dynamic_rules",
                        uc.new_scheduled_dynamic_rules)
      s9 == merge_rules(s8, uc, "gy_dynamic_rules_to_install",
                        uc.gy_dynamic_rules_to_install)
      s10 == merge_rules(s9, uc, "gy_dynamic_rules_to_uninstall",
                         in_order(uc.gy_dynamic_rules_to_uninstall))
      s11 == merge_rules(s10, uc, "restrict_rules_to_install",
                         in_order(uc.restrict_rules_to_install))
      s12 == merge_rules(s11, uc, "restrict_rules_to_uninstall",
                         in_order(uc.restrict_rules_to_uninstall))
      s13 == apply_charging_credit_updates(s12, uc,
                                           DOMAIN uc.charging_credit_map)
      s13b == [s13 EXCEPT
                 !.credit_map_ = Installed(@, uc.charging_credit_to_install),
                 !.session_level_key_ =
                    IF uc.is_session_level_key_updated
                      THEN uc.updated_session_level_key ELSE @]
      s13c == apply_monitor_updates_loop(s13b, uc, DOMAIN uc.monitor_credit_map)
      s14 == [s13c EXCEPT
                !.monitor_map_ = Installed(@, uc.monitor_credit_to_install)]
  IN [(IF s12.ret THEN s14 ELSE s12) EXCEPT !.uc = st.uc]

\* ------------------------------------------------------------------------
\* The rule sets of a subscriber: RuleSetToApply and RuleSetBySubscriber.
\* An optional is the empty set or the set of its value
\* ------------------------------------------------------------------------
\* RuleSetToApply::RuleSetToApply(rule_set): the ids of the static rules and
\* the dynamic rules by id
RuleSetToApply(rule_set) ==
  [static_rules |-> rule_set.static_rules,
   dynamic_rules |-> rule_set.dynamic_rules]

\* RuleSetToApply::combine_rule_set: the rules of other are put into self
combine_rule_set(self, other) ==
  [static_rules |-> self.static_rules \cup other.static_rules,
   dynamic_rules |-> Installed(self.dynamic_rules, other.dynamic_rules)]

\* one iteration of the loop of RuleSetBySubscriber::RuleSetBySubscriber
add_rule_set(self, rule_set) ==
  IF rule_set.apply_subscriber_wide
    THEN [self EXCEPT !.subscriber_wide_rule_set = {RuleSetToApply(rule_set)}]
    ELSE [self EXCEPT !.subscriber_wide_rule_set = {},
                      !.rule_set_by_apn =
                         Put(@, rule_set.apn, RuleSetToApply(rule_set))]

RECURSIVE add_rule_sets(_, _)
add_rule_sets(self, rule_sets) ==
  IF rule_sets = <<>> THEN self
  ELSE add_rule_sets(add_rule_set(self, Head(rule_sets)), Tail(rule_sets))

\* RuleSetBySubscriber::RuleSetBySubscriber(rules_per_subscriber)
RuleSetBySubscriber(rule_sets) ==
  add_rule_sets([subscriber_wide_rule_set |-> {}, rule_set_by_apn |-> EmptyMap],
                rule_sets)

\* RuleSetBySubscriber::get_combined_rule_set_for_apn
get_combined_rule_set_for_apn(self, apn) ==
  LET apn_rule_set_exists == Has(self.rule_set_by_apn, apn)
  IN IF apn_rule_set_exists /\ self.subscriber_wide_rule_set # {}
       THEN {combine_rule_set(self.rule_set_by_apn[apn], wide) :
               wide \in self.subscriber_wide_rule_set}
     ELSE IF self.subscriber_wide_rule_set # {}
       THEN self.subscriber_wide_rule_set
     ELSE IF apn_rule_set_exists THEN {self.rule_set_by_apn[apn]}
     ELSE {}

\* ------------------------------------------------------------------------
\* The stored form of a session
\* ------------------------------------------------------------------------
\* SessionState::marshal: StoredSessionState
marshal(st) ==
  [fsm_state |-> st.curr_state_,
   config |-> st.config_,
   request_number |-> st.request_number_,
   pending_event_triggers |-> st.pending_event_triggers_,
   bearer_id_by_policy |-> st.bearer_id_by_policy_,
   monitor_map |-> st.monitor_map_,
   session_level_key |-> st.session_level_key_,
   credit_map |-> st.credit_map_,
   static_rule_ids |-> st.active_static_rules_,
   dynamic_rules |-> st.dynamic_rules_,
   gy_dynamic_rules |-> st.gy_dynamic_rules_,
   scheduled_static_rules |-> st.scheduled_static_rules_,
   scheduled_dynamic_rules |-> st.scheduled_dynamic_rules_,
   rule_lifetimes |-> st.rule_lifetimes_]

\* SessionState::SessionState(marshaled, rule_store), written over st: the
\* members the constructor does not initialise from marshaled are those of
\* a new object
unmarshal(st, marshaled) ==
  [st EXCEPT
     !.curr_state_ = marshaled.fsm_state,
     !.config_ = marshaled.config,
     !.request_number_ = marshaled.request_number,
     !.pending_event_triggers_ = marshaled.pending_event_triggers,
     !.bearer_id_by_policy_ = marshaled.bearer_id_by_policy,
     !.monitor_map_ = marshaled.monitor_map,
     !.session_level_key_ = marshaled.session_level_key,
     !.credit_map_ = marshaled.credit_map,
     !.active_static_rules_ = marshaled.static_rule_ids,
     !.dynamic_rules_ = marshaled.dynamic_rules,
     !.gy_dynamic_rules_ = marshaled.gy_dynamic_rules,
     !.scheduled_static_rules_ = marshaled.scheduled_static_rules,
     !.scheduled_dynamic_rules_ = marshaled.scheduled_dynamic_rules,
     !.rule_lifetimes_ = marshaled.rule_lifetimes,
     !.active_restrict_rules_ = <<>>]

\* SessionState::get_session_info: SessionInfo
get_session_info(st) ==
  [dynamic_rules |-> st.dynamic_rules_,
   gy_dynamic_rules |-> st.gy_dynamic_rules_,
   static_rules |-> st.active_static_rules_,
   restrict_rules |-> st.active_restrict_rules_]

\* ------------------------------------------------------------------------
\* State
\* ------------------------------------------------------------------------
VARIABLES
  curr_state_,              \* SessionState::curr_state_
  request_number_,          \* SessionState::request_number_
  credit_map_,              \* charging key -> ChargingGrant
  monitor_map_,             \* monitoring key -> Monitor
  session_level_key_,       \* session-level monitoring key, NoKey when unset
  pending_event_triggers_,  \* EventTrigger -> EventTriggerState
  active_static_rules_,     \* vector of the ids of the active static rules
  scheduled_static_rules_,  \* set of the ids of the scheduled static rules
  dynamic_rules_,           \* ids of the rules of the active dynamic rule store
  scheduled_dynamic_rules_, \* ids of the rules of the scheduled dynamic rule store
  rule_lifetimes_,          \* rule id -> RuleLifetime
  gy_dynamic_rules_,        \* ids of the rules of the gy dynamic rule store
  active_restrict_rules_,   \* vector of the ids of the active restrict rules
  bearer_id_by_policy_,     \* PolicyID -> id of the dedicated bearer
  config_,                  \* SessionConfig
  last_op,                  \* name of the last call
  sent,                     \* request numbers of all outbound messages, in order
  report_count,             \* calls of SessionReporter::report_terminate_session
  session_in_store,         \* the session is in the enforcer's session map
  timers,                   \* pending force-termination callbacks on the event loop
  rules_per_subscriber,     \* RulesPerSubscriber::rule_set, the list of a message
  rule_set_by_subscriber,   \* the RuleSetBySubscriber built from it
  combined_rule_set         \* the last get_combined_rule_set_for_apn: the apn
                            \* asked for and the rule set returned

vars ==
  <<curr_state_, request_number_, credit_map_, monitor_map_, session_level_key_,
    pending_event_triggers_, active_static_rules_, scheduled_static_rules_,
    dynamic_rules_, scheduled_dynamic_rules_, rule_lifetimes_,
    gy_dynamic_rules_, active_restrict_rules_, bearer_id_by_policy_, config_,
    last_op, sent, report_count, session_in_store, timers,
    rules_per_subscriber, rule_set_by_subscriber, combined_rule_set>>

enforcer_vars == <<session_in_store, timers>>
rule_set_vars ==
  <<rules_per_subscriber, rule_set_by_subscriber, combined_rule_set>>

\* the session as the record the operations work on.  The journal uc, the
\* requests out, the service actions actions_out and the return value ret
\* belong to one call: a call starts with an empty journal and nothing handed
\* out, and they are read off the record the operation yields
Cur ==
  [curr_state_ |-> curr_state_, request_number_ |-> request_number_,
   credit_map_ |-> credit_map_, monitor_map_ |-> monitor_map_,
   session_level_key_ |-> session_level_key_,
   pending_event_triggers_ |-> pending_event_triggers_,
   active_static_rules_ |-> active_static_rules_,
   scheduled_static_rules_ |-> scheduled_static_rules_,
   dynamic_rules_ |-> dynamic_rules_,
   scheduled_dynamic_rules_ |-> scheduled_dynamic_rules_,
   rule_lifetimes_ |-> rule_lifetimes_,
   gy_dynamic_rules_ |-> gy_dynamic_rules_,
   active_restrict_rules_ |-> active_restrict_rules_,
   bearer_id_by_policy_ |-> bearer_id_by_policy_,
   config_ |-> config_,
   uc |-> NewUC, out |-> <<>>, actions_out |-> <<>>, ret |-> TRUE,
   rules_to_activate |-> RulesToProcess, rules_to_deactivate |-> RulesToProcess,
   ue_reported_usage |-> NoUsage, update |-> NewBearerUpdate,
   sent |-> sent, report_count |-> report_count]

\* the bounds of a specification
Bounds(used, allowed, req) == [used |-> used, allowed |-> allowed, req |-> req]
SessionBounds == Bounds(MaxUsed, MaxAllowed, MaxReq)
EnforcerBounds == Bounds(EnfMaxUsed, EnfMaxAllowed, EnfMaxReq)

credit_in_bounds(c, B) ==
  /\ c.used_tx + c.used_rx <= B.used
  /\ c.allowed <= B.allowed

\* the bounds B as a condition on the session after a call
InBounds(st, B) ==
  /\ st.request_number_ <= B.req
  /\ Len(st.sent) <= B.req
  /\ Len(st.active_static_rules_) <= MaxRules
  /\ Len(st.active_restrict_rules_) <= MaxRules
  /\ \A k \in DOMAIN st.credit_map_ :
       credit_in_bounds(st.credit_map_[k].credit, B)
  /\ \A k \in DOMAIN st.monitor_map_ :
       credit_in_bounds(st.monitor_map_[k].credit, B)

\* the session after a call
Becomes(st, op, B) ==
  /\ InBounds(st, B)
  /\ curr_state_' = st.curr_state_
  /\ request_number_' = st.request_number_
  /\ credit_map_' = st.credit_map_
  /\ monitor_map_' = st.monitor_map_
  /\ session_level_key_' = st.session_level_key_
  /\ pending_event_triggers_' = st.pending_event_triggers_
  /\ active_static_rules_' = st.active_static_rules_
  /\ scheduled_static_rules_' = st.scheduled_static_rules_
  /\ dynamic_rules_' = st.dynamic_rules_
  /\ scheduled_dynamic_rules_' = st.scheduled_dynamic_rules_
  /\ rule_lifetimes_' = st.rule_lifetimes_
  /\ gy_dynamic_rules_' = st.gy_dynamic_rules_
  /\ active_restrict_rules_' = st.active_restrict_rules_
  /\ bearer_id_by_policy_' = st.bearer_id_by_policy_
  /\ config_' = st.config_
  /\ sent' = st.sent
  /\ report_count' = st.report_count
  /\ last_op' = op
  /\ UNCHANGED rule_set_vars

\* SessionState::SessionState(imsi, session_id, cfg, ...): request 0 is the
\* INIT call, so the request number starts at 1
InitWith(cfg) ==
  /\ curr_state_ = "SESSION_ACTIVE"
  /\ request_number_ = 1
  /\ credit_map_ = EmptyMap
  /\ monitor_map_ = EmptyMap
  /\ session_level_key_ = NoKey
  /\ pending_event_triggers_ = EmptyMap
  /\ active_static_rules_ = <<>>
  /\ scheduled_static_rules_ = {}
  /\ dynamic_rules_ = {}
  /\ scheduled_dynamic_rules_ = {}
  /\ rule_lifetimes_ = EmptyMap
  /\ gy_dynamic_rules_ = {}
  /\ active_restrict_rules_ = <<>>
  /\ bearer_id_by_policy_ = EmptyMap
  /\ config_ = cfg
  /\ last_op = "SessionState"
  /\ sent = <<>>
  /\ report_count = 0
  /\ session_in_store = TRUE
  /\ timers = 0
  /\ rules_per_subscriber = <<>>
  /\ rule_set_by_subscriber = RuleSetBySubscriber(<<>>)
  /\ combined_rule_set = [apn |-> "", rule_set |-> {}]

\* the session of an LTE subscriber
Init == InitWith(LteConfig)

\* inputs: usage of a rule record, and the responses of the cloud
UsageInputs == {<<1, 0>>, <<0, 1>>}
CreditUpdateResponses(B) ==
  [key : CKeys, success : BOOLEAN, granted : 0..B.allowed,
   is_final : BOOLEAN, final_action : FinalAction]
\* grants that are not final
PlainCreditUpdateResponses(B) ==
  {u \in CreditUpdateResponses(B) : ~u.is_final /\ u.final_action = "TERMINATE"}
UsageMonitoringUpdateResponses(B) ==
  [key : MKeys, success : BOOLEAN, has_credit : BOOLEAN,
   level : MonitoringLevel, action : {"CONTINUE", "DISABLE"},
   granted : 0..B.allowed]
\* monitors of single rules
RuleMonitoringUpdateResponses(B) ==
  {u \in UsageMonitoringUpdateResponses(B) : u.level = "PCC_RULE_LEVEL"}
\* the answers a session and the enforcer's session are given
SessionCreditUpdates == PlainCreditUpdateResponses(SessionBounds)
EnforcerCreditUpdates == PlainCreditUpdateResponses(EnforcerBounds)
EnforcerMonitorUpdates ==
  {u \in RuleMonitoringUpdateResponses(EnforcerBounds) :
     u.has_credit /\ u.action = "CONTINUE"}

\* ------------------------------------------------------------------------
\* The operations of a session as actions
\* ------------------------------------------------------------------------
AddRuleUsage(rules, B) ==
  /\ \E rule_id \in rules, u \in UsageInputs :
       Becomes(add_rule_usage(Cur, rule_id, u[1], u[2]), "add_rule_usage", B)
  /\ UNCHANGED enforcer_vars

GetUpdates(B) ==
  /\ Becomes(get_updates(Cur), "get_updates", B)
  /\ UNCHANGED enforcer_vars

MarkAsAwaitingTermination(B) ==
  /\ Becomes(mark_as_awaiting_termination(Cur), "mark_as_awaiting_termination", B)
  /\ UNCHANGED enforcer_vars

CompleteTermination(B) ==
  /\ Becomes(complete_termination(Cur), "complete_termination", B)
  /\ UNCHANGED enforcer_vars

ReceiveChargingCredit(updates, B) ==
  /\ \E update \in updates :
       Becomes(receive_charging_credit(Cur, update), "receive_charging_credit", B)
  /\ UNCHANGED enforcer_vars

ReceiveMonitor(updates, B) ==
  /\ \E update \in updates :
       Becomes(receive_monitor(Cur, update), "receive_monitor", B)
  /\ UNCHANGED enforcer_vars

ResetReportingChargingCredit(B) ==
  /\ \E key \in AllCKeys :
       Becomes(reset_reporting_charging_credit(Cur, key),
               "reset_reporting_charging_credit", B)
  /\ UNCHANGED enforcer_vars

ResetReportingMonitor(B) ==
  /\ \E key \in AllMKeys :
       Becomes(reset_reporting_monitor(Cur, key), "reset_reporting_monitor", B)
  /\ UNCHANGED enforcer_vars

ReauthKey(B) ==
  /\ \E key \in CKeys : Becomes(reauth_key(Cur, key), "reauth_key", B)
  /\ UNCHANGED enforcer_vars

AddNewEventTrigger(B) ==
  /\ Becomes(add_new_event_trigger(Cur, REVALIDATION_TIMEOUT),
             "add_new_event_trigger", B)
  /\ UNCHANGED enforcer_vars

MarkEventTriggerAsTriggered(B) ==
  /\ Becomes(mark_event_trigger_as_triggered(Cur, REVALIDATION_TIMEOUT),
             "mark_event_trigger_as_triggered", B)
  /\ UNCHANGED enforcer_vars

\* ------------------------------------------------------------------------
\* Spec: the operations of one session called in any order, with charging
\* grants that are not final
\* ------------------------------------------------------------------------
Next ==
  \/ AddRuleUsage(StaticRules, SessionBounds)
  \/ GetUpdates(SessionBounds)
  \/ MarkAsAwaitingTermination(SessionBounds)
  \/ CompleteTermination(SessionBounds)
  \/ ReceiveChargingCredit(SessionCreditUpdates, SessionBounds)
  \/ ResetReportingChargingCredit(SessionBounds)

Spec == Init /\ [][Next]_vars

\* ------------------------------------------------------------------------
\* ReauthSpec: the same operations, and the re-authorisation of a charging key
\* ------------------------------------------------------------------------
ReauthNext ==
  \/ AddRuleUsage(StaticRules, SessionBounds)
  \/ GetUpdates(SessionBounds)
  \/ MarkAsAwaitingTermination(SessionBounds)
  \/ CompleteTermination(SessionBounds)
  \/ ReceiveChargingCredit(SessionCreditUpdates, SessionBounds)
  \/ ResetReportingChargingCredit(SessionBounds)
  \/ ReauthKey(SessionBounds)

ReauthSpec == Init /\ [][ReauthNext]_vars

\* ------------------------------------------------------------------------
\* LocalEnforcer: the session is driven by the enforcer, which owns it through
\* the session map, and by the timers of the event loop
\* ------------------------------------------------------------------------
RECURSIVE reset_charging_keys(_, _)
reset_charging_keys(st, keys) ==
  IF keys = {} THEN st
  ELSE LET key == CHOOSE k \in keys : TRUE
       IN reset_charging_keys(reset_reporting_charging_credit(st, key),
                              keys \ {key})

RECURSIVE reset_monitor_keys(_, _)
reset_monitor_keys(st, keys) ==
  IF keys = {} THEN st
  ELSE LET key == CHOOSE k \in keys : TRUE
       IN reset_monitor_keys(reset_reporting_monitor(st, key), keys \ {key})

\* LocalEnforcer::reset_updates: every key of the failed request is reset
reset_updates(st, ckeys, mkeys) ==
  reset_monitor_keys(reset_charging_keys(st, ckeys), mkeys)

\* the rule records of a data-plane report: a rule of the session or a rule
\* with unknown keys, with uplink usage
RecordRules == {"r1", "r3"}
RecordUsage == {<<1, 0>>}

\* LocalEnforcer::aggregate_records: usage of the rules in a data-plane report
AggregateRecords ==
  /\ session_in_store
  /\ \E rule_id \in RecordRules, u \in RecordUsage :
       Becomes(add_rule_usage(Cur, rule_id, u[1], u[2]), "add_rule_usage",
               EnforcerBounds)
  /\ UNCHANGED enforcer_vars

\* LocalEnforcer::collect_updates
CollectUpdates ==
  /\ session_in_store
  /\ Becomes(get_updates(Cur), "get_updates", EnforcerBounds)
  /\ UNCHANGED enforcer_vars

\* LocalEnforcer::update_session_credits_and_rules: one response of the cloud
\* for a charging key or for a monitoring key
UpdateSessionCreditsAndRules ==
  /\ session_in_store
  /\ \/ \E update \in EnforcerCreditUpdates :
          Becomes(receive_charging_credit(Cur, update),
                  "receive_charging_credit", EnforcerBounds)
     \/ \E update \in EnforcerMonitorUpdates :
          Becomes(receive_monitor(Cur, update), "receive_monitor",
                  EnforcerBounds)
  /\ UNCHANGED enforcer_vars

\* LocalEnforcer::reset_updates for a request that could not be sent
ResetUpdates ==
  /\ session_in_store
  /\ \E ckeys \in SUBSET CKeys, mkeys \in SUBSET MKeys :
       /\ ckeys \cup mkeys # {}
       /\ Becomes(reset_updates(Cur, ckeys, mkeys), "reset_updates",
                  EnforcerBounds)
  /\ UNCHANGED enforcer_vars

\* LocalEnforcer::schedule_revalidation
ScheduleRevalidation ==
  /\ session_in_store
  /\ Becomes(add_new_event_trigger(Cur, REVALIDATION_TIMEOUT),
             "add_new_event_trigger", EnforcerBounds)
  /\ UNCHANGED enforcer_vars

\* the revalidation timer of schedule_revalidation fires
RevalidationTimeout ==
  /\ session_in_store
  /\ Has(pending_event_triggers_, REVALIDATION_TIMEOUT)
  /\ Becomes(mark_event_trigger_as_triggered(Cur, REVALIDATION_TIMEOUT),
             "mark_event_trigger_as_triggered", EnforcerBounds)
  /\ UNCHANGED enforcer_vars

\* LocalEnforcer::start_session_termination: the session awaits termination
\* and a force-termination callback is scheduled
StartSessionTermination ==
  /\ session_in_store
  /\ timers < MaxTimers
  /\ Becomes(mark_as_awaiting_termination(Cur), "mark_as_awaiting_termination",
             EnforcerBounds)
  /\ timers' = timers + 1
  /\ UNCHANGED session_in_store

\* LocalEnforcer::complete_termination_for_released_sessions: a report without
\* the flows of a session that awaits termination releases the session and
\* completes its termination; the session leaves the session map
CompleteTerminationForReleasedSessions ==
  /\ session_in_store
  /\ curr_state_ = "SESSION_TERMINATION_SCHEDULED"
  /\ Becomes(complete_termination(set_fsm_state(Cur, "SESSION_RELEASED")),
             "complete_termination", EnforcerBounds)
  /\ session_in_store' = FALSE
  /\ UNCHANGED timers

\* LocalEnforcer::handle_force_termination_timeout: completes the termination
\* of the session if the session map still holds it, else does nothing
HandleForceTerminationTimeout ==
  /\ timers > 0
  /\ timers' = timers - 1
  /\ IF session_in_store
       THEN /\ Becomes(complete_termination(Cur), "complete_termination",
                       EnforcerBounds)
            /\ session_in_store' = FALSE
       ELSE /\ last_op' = "handle_force_termination_timeout"
            /\ UNCHANGED <<curr_state_, request_number_, credit_map_,
                           monitor_map_, session_level_key_,
                           pending_event_triggers_, active_static_rules_,
                           scheduled_static_rules_, dynamic_rules_,
                           scheduled_dynamic_rules_, rule_lifetimes_,
                           gy_dynamic_rules_, active_restrict_rules_,
                           bearer_id_by_policy_, config_, sent,
                           report_count, session_in_store,
                           rules_per_subscriber, rule_set_by_subscriber,
                           combined_rule_set>>

EnfNext ==
  \/ AggregateRecords
  \/ CollectUpdates
  \/ UpdateSessionCreditsAndRules
  \/ ResetUpdates
  \/ ScheduleRevalidation
  \/ RevalidationTimeout
  \/ StartSessionTermination
  \/ CompleteTerminationForReleasedSessions
  \/ HandleForceTerminationTimeout

EnfSpec == Init /\ [][EnfNext]_vars

\* a step of HandleForceTerminationTimeout as the timers show it: one pending
\* force-termination callback has run
ForceTerminationTimeoutRuns == timers > 0 /\ timers' = timers - 1

\* the event loop runs every callback it has scheduled
EnfFairSpec == EnfSpec /\ WF_timers(ForceTerminationTimeoutRuns)

\* ------------------------------------------------------------------------
\* EnfReauthSpec: the enforcer's session, and charging re-authorisation
\* requests of the cloud for this session and for sessions that do not exist
\* ------------------------------------------------------------------------
\* the subscriber and the session id of the session of the model
IMSI == "IMSI1"
SESSION_ID == "sid1"

\* ChargingReAuthRequest
ReAuthType == {"SINGLE_SERVICE", "ENTIRE_SESSION"}
ChargingReAuthRequests ==
  [sid : {IMSI, "IMSI2"}, session_id : {SESSION_ID, "doesNotExist"},
   type : ReAuthType, charging_key : CKeys]

\* the session map holds a session of the request's subscriber with the
\* request's session id
session_found(in_store, request) ==
  /\ in_store
  /\ request.sid = IMSI
  /\ request.session_id = SESSION_ID

\* ReAuthResult of reauth_key and reauth_all
ReAuthResult(initiated) ==
  IF initiated THEN "UPDATE_INITIATED" ELSE "UPDATE_NOT_NEEDED"

\* init_charging_reauth that looks the session up by the subscriber alone
init_charging_reauth_by_subscriber(st, in_store, request) ==
  IF ~(in_store /\ request.sid = IMSI)
    THEN [session |-> st, session_in_store |-> in_store,
          result |-> "SESSION_NOT_FOUND"]
    ELSE LET after == IF request.type = "SINGLE_SERVICE"
                        THEN reauth_key(st, request.charging_key)
                        ELSE reauth_all(st)
         IN [session |-> after, session_in_store |-> in_store,
             result |-> ReAuthResult(after.ret)]

\* LocalEnforcer::init_charging_reauth: the session, the session map and the
\* result after the call
init_charging_reauth(st, in_store, request) ==
  IF ~session_found(in_store, request)
    THEN [session |-> st, session_in_store |-> in_store,
          result |-> "SESSION_NOT_FOUND"]
    ELSE LET after == IF request.type = "SINGLE_SERVICE"
                        THEN reauth_key(st, request.charging_key)
                        ELSE reauth_all(st)
         IN [session |-> after, session_in_store |-> in_store,
             result |-> ReAuthResult(after.ret)]

InitChargingReauth ==
  /\ \E request \in ChargingReAuthRequests :
       LET called == init_charging_reauth(Cur, session_in_store, request)
       IN /\ Becomes(called.session, "init_charging_reauth", EnforcerBounds)
          /\ session_in_store' = called.session_in_store
  /\ UNCHANGED timers

EnfReauthNext ==
  \/ AggregateRecords
  \/ CollectUpdates
  \/ UpdateSessionCreditsAndRules
  \/ StartSessionTermination
  \/ CompleteTerminationForReleasedSessions
  \/ HandleForceTerminationTimeout
  \/ InitChargingReauth

EnfReauthSpec == Init /\ [][EnfReauthNext]_vars

\* ------------------------------------------------------------------------
\* RuleSpec: the operations on the rule stores of one session called in any
\* order, and the merge of the journal of one such operation into the session
\* ------------------------------------------------------------------------
\* RuleSetToApply: the static rule ids and the dynamic rules of a rule set
RuleSets == [static_rules : SUBSET SessionStaticRules,
             dynamic_rules : SUBSET DynamicRules]

\* the session after each call of an operation on the rule stores
RuleOperations(st) ==
  {schedule_static_rule(st, r, l) : r \in SessionStaticRules, l \in Lifetimes}
  \cup {schedule_dynamic_rule(st, r, l) : r \in DynamicRules, l \in Lifetimes}
  \cup {activate_static_rule(st, r, l) : r \in SessionStaticRules, l \in Lifetimes}
  \cup {insert_dynamic_rule(st, r, l) : r \in DynamicRules, l \in Lifetimes}
  \cup {apply_session_rule_set(st, rule_set) : rule_set \in RuleSets}
  \cup {sync_rules_to_time(st, t, stale) : t \in 0..MaxTime, stale \in StaleRuleIds}

ScheduleStaticRule ==
  /\ \E rule_id \in SessionStaticRules, lifetime \in Lifetimes :
       Becomes(schedule_static_rule(Cur, rule_id, lifetime),
               "schedule_static_rule", SessionBounds)
  /\ UNCHANGED enforcer_vars

ScheduleDynamicRule ==
  /\ \E rule_id \in DynamicRules, lifetime \in Lifetimes :
       Becomes(schedule_dynamic_rule(Cur, rule_id, lifetime),
               "schedule_dynamic_rule", SessionBounds)
  /\ UNCHANGED enforcer_vars

ActivateStaticRule ==
  /\ \E rule_id \in SessionStaticRules, lifetime \in Lifetimes :
       Becomes(activate_static_rule(Cur, rule_id, lifetime),
               "activate_static_rule", SessionBounds)
  /\ UNCHANGED enforcer_vars

InsertDynamicRule ==
  /\ \E rule_id \in DynamicRules, lifetime \in Lifetimes :
       Becomes(insert_dynamic_rule(Cur, rule_id, lifetime),
               "insert_dynamic_rule", SessionBounds)
  /\ UNCHANGED enforcer_vars

ApplySessionRuleSet ==
  /\ \E rule_set \in RuleSets :
       Becomes(apply_session_rule_set(Cur, rule_set), "apply_session_rule_set",
               SessionBounds)
  /\ UNCHANGED enforcer_vars

SyncRulesToTime ==
  /\ \E current_time \in 0..MaxTime, stale \in StaleRuleIds :
       Becomes(sync_rules_to_time(Cur, current_time, stale),
               "sync_rules_to_time", SessionBounds)
  /\ UNCHANGED enforcer_vars

\* the session store merges the journal of an operation that ran on a copy
\* of the session
ApplyUpdateCriteria ==
  /\ \E st \in RuleOperations(Cur) :
       Becomes(apply_update_criteria(Cur, st.uc), "apply_update_criteria",
               SessionBounds)
  /\ UNCHANGED enforcer_vars

RuleNext ==
  \/ ScheduleStaticRule
  \/ ScheduleDynamicRule
  \/ ActivateStaticRule
  \/ InsertDynamicRule
  \/ ApplySessionRuleSet
  \/ SyncRulesToTime
  \/ ApplyUpdateCriteria

RuleSpec == Init /\ [][RuleNext]_vars

\* ------------------------------------------------------------------------
\* BearerSpec: the session of an LTE or of a WLAN subscriber whose rules the
\* enforcer sets, and the answers of the access gateway to the bearer
\* creation requests
\* ------------------------------------------------------------------------
BearerInit == \E cfg \in SessionConfigs : InitWith(cfg)

\* PolicyBearerBindingRequest: bearer id 0 reports that no bearer was created
BearerRules == SessionStaticRules \cup DynamicRules
PolicyBearerBindingRequests ==
  [sid : {IMSI, "IMSI2"}, policy_rule_id : BearerRules, bearer_id : {0, 7}]

\* LocalEnforcer::remove_rule_due_to_bearer_creation_failure
remove_rule_due_to_bearer_creation_failure(st, rule_id) ==
  LET policy_type == get_policy_type(st, rule_id)
  IN IF policy_type = "STATIC" THEN deactivate_static_rule(st, rule_id)
     ELSE IF policy_type = "DYNAMIC" THEN remove_dynamic_rule(st, rule_id)
     ELSE st

\* LocalEnforcer::bind_policy_to_bearer: the session after the call, the
\* call it made on the session, and the value it returns
LocalEnforcer_bind_policy_to_bearer(st, in_store, request) ==
  IF ~(in_store /\ request.sid = IMSI)
    THEN [session |-> st, called |-> "bind_policy_to_bearer", result |-> FALSE]
  ELSE IF request.bearer_id # 0
    THEN [session |-> bind_policy_to_bearer(st, request),
          called |-> "bind_policy_to_bearer", result |-> TRUE]
  ELSE [session |-> [remove_rule_due_to_bearer_creation_failure(
                       st, request.policy_rule_id) EXCEPT !.ret = st.ret],
        called |-> "remove_rule_due_to_bearer_creation_failure",
        result |-> TRUE]

BindPolicyToBearer ==
  /\ \E request \in PolicyBearerBindingRequests :
       LET bound == LocalEnforcer_bind_policy_to_bearer(Cur, session_in_store,
                                                        request)
       IN Becomes(bound.session, bound.called, SessionBounds)
  /\ UNCHANGED enforcer_vars

\* LocalEnforcer::handle_set_session_rules: the rule set is applied and the
\* bearers of the rules it activated and deactivated are asked for
handle_set_session_rules(st, rule_set) ==
  LET applied == apply_session_rule_set(st, rule_set)
  IN get_dedicated_bearer_updates(applied, applied.rules_to_activate,
                                  applied.rules_to_deactivate)

HandleSetSessionRules ==
  /\ session_in_store
  /\ \E rule_set \in RuleSets :
       Becomes(handle_set_session_rules(Cur, rule_set),
               "handle_set_session_rules", SessionBounds)
  /\ UNCHANGED enforcer_vars

BearerNext ==
  \/ HandleSetSessionRules
  \/ BindPolicyToBearer

BearerSpec == BearerInit /\ [][BearerNext]_vars

\* ------------------------------------------------------------------------
\* MergeSpec: the operations on the five rule stores of one session, one rule
\* for each kind of store, and the merge of journals into the session
\* ------------------------------------------------------------------------
MergeStaticRules == {"r1"}
MergeLifetime == RuleLifetime(0, 1)

\* what a journal holds for the rule of one kind
StaticEntries == {"none", "install", "uninstall", "schedule"}
GyEntries == {"none", "install", "uninstall"}
MergeJournals ==
  [static : StaticEntries, dynamic : StaticEntries, gy : GyEntries,
   restrict : GyEntries, lifetimes : BOOLEAN]

\* the rules of a journal that have the entry, as a set and as a vector
EntrySet(have, entry, rule_id) == IF have = entry THEN {rule_id} ELSE {}
EntrySeq(have, entry, rule_id) == IF have = entry THEN <<rule_id>> ELSE <<>>

\* the journal with the entries of j, and with a lifetime for each of its
\* rules if j.lifetimes
journal_of(j) ==
  LET rules == EntrySet(TRUE, j.static # "none", "r1")
               \cup EntrySet(TRUE, j.dynamic # "none", "d1")
               \cup EntrySet(TRUE, j.gy # "none", "g1")
               \cup EntrySet(TRUE, j.restrict # "none", "x1")
  IN [NewUC EXCEPT
        !.static_rules_to_install = EntrySet(j.static, "install", "r1"),
        !.static_rules_to_uninstall = EntrySet(j.static, "uninstall", "r1"),
        !.new_scheduled_static_rules = EntrySet(j.static, "schedule", "r1"),
        !.dynamic_rules_to_install = EntrySeq(j.dynamic, "install", "d1"),
        !.dynamic_rules_to_uninstall = EntrySet(j.dynamic, "uninstall", "d1"),
        !.new_scheduled_dynamic_rules = EntrySeq(j.dynamic, "schedule", "d1"),
        !.gy_dynamic_rules_to_install = EntrySeq(j.gy, "install", "g1"),
        !.gy_dynamic_rules_to_uninstall = EntrySet(j.gy, "uninstall", "g1"),
        !.restrict_rules_to_install = EntrySet(j.restrict, "install", "x1"),
        !.restrict_rules_to_uninstall = EntrySet(j.restrict, "uninstall", "x1"),
        !.new_rule_lifetimes =
           IF j.lifetimes THEN [r \in rules |-> MergeLifetime] ELSE EmptyMap]

\* the journals the session store merges: journals about one rule
SingleRuleJournals ==
  {j \in MergeJournals :
     /\ j.lifetimes
     /\ \E kind \in {"static", "dynamic", "gy", "restrict"} :
          /\ j[kind] # "none"
          /\ \A other \in {"static", "dynamic", "gy", "restrict"} \ {kind} :
               j[other] = "none"}

\* the session after one call of an operation on its rule stores; the
\* journal of st goes on into the call
MergeOperations(st) ==
  {activate_static_rule(st, "r1", MergeLifetime),
   schedule_static_rule(st, "r1", MergeLifetime),
   deactivate_static_rule(st, "r1"),
   deactivate_scheduled_static_rule(st, "r1"),
   insert_dynamic_rule(st, "d1", MergeLifetime),
   schedule_dynamic_rule(st, "d1", MergeLifetime),
   remove_dynamic_rule(st, "d1"),
   remove_scheduled_dynamic_rule(st, "d1"),
   insert_gy_dynamic_rule(st, "g1", MergeLifetime),
   remove_gy_dynamic_rule(st, "g1"),
   activate_restrict_rule(st, "x1", MergeLifetime),
   deactivate_restrict_rule(st, "x1")}

\* a call of an operation of the session
Call(st, op) ==
  /\ Len(st.active_static_rules_) <= MergeMaxRules
  /\ Len(st.active_restrict_rules_) <= MergeMaxRules
  /\ Becomes(st, op, SessionBounds)
  /\ UNCHANGED enforcer_vars

MergeActivateStaticRule ==
  \E rule_id \in MergeStaticRules :
    Call(activate_static_rule(Cur, rule_id, MergeLifetime), "activate_static_rule")

MergeScheduleStaticRule ==
  \E rule_id \in MergeStaticRules :
    Call(schedule_static_rule(Cur, rule_id, MergeLifetime), "schedule_static_rule")

MergeDeactivateStaticRule ==
  \E rule_id \in MergeStaticRules :
    /\ is_static_rule_installed(Cur, rule_id)
    /\ Call(deactivate_static_rule(Cur, rule_id), "deactivate_static_rule")

MergeDeactivateScheduledStaticRule ==
  \E rule_id \in MergeStaticRules :
    /\ is_static_rule_scheduled(Cur, rule_id)
    /\ Call(deactivate_scheduled_static_rule(Cur, rule_id),
            "deactivate_scheduled_static_rule")

MergeInsertDynamicRule ==
  \E rule_id \in DynamicRules :
    Call(insert_dynamic_rule(Cur, rule_id, MergeLifetime), "insert_dynamic_rule")

MergeScheduleDynamicRule ==
  \E rule_id \in DynamicRules :
    Call(schedule_dynamic_rule(Cur, rule_id, MergeLifetime),
         "schedule_dynamic_rule")

MergeRemoveDynamicRule ==
  \E rule_id \in DynamicRules :
    /\ is_dynamic_rule_installed(Cur, rule_id)
    /\ Call(remove_dynamic_rule(Cur, rule_id), "remove_dynamic_rule")

MergeRemoveScheduledDynamicRule ==
  \E rule_id \in DynamicRules :
    /\ is_dynamic_rule_scheduled(Cur, rule_id)
    /\ Call(remove_scheduled_dynamic_rule(Cur, rule_id),
            "remove_scheduled_dynamic_rule")

MergeInsertGyDynamicRule ==
  \E rule_id \in GyDynamicRules :
    Call(insert_gy_dynamic_rule(Cur, rule_id, MergeLifetime),
         "insert_gy_dynamic_rule")

MergeRemoveGyDynamicRule ==
  \E rule_id \in GyDynamicRules :
    /\ is_gy_dynamic_rule_installed(Cur, rule_id)
    /\ Call(remove_gy_dynamic_rule(Cur, rule_id), "remove_gy_dynamic_rule")

MergeActivateRestrictRule ==
  \E rule_id \in RestrictRules :
    Call(activate_restrict_rule(Cur, rule_id, MergeLifetime),
         "activate_restrict_rule")

MergeDeactivateRestrictRule ==
  \E rule_id \in RestrictRules :
    /\ is_restrict_rule_installed(Cur, rule_id)
    /\ Call(deactivate_restrict_rule(Cur, rule_id), "deactivate_restrict_rule")

\* the session store merges a journal into the session
MergeJournal ==
  \E j \in SingleRuleJournals :
    Call(apply_update_criteria(Cur, journal_of(j)), "apply_update_criteria")

MergeNext ==
  \/ MergeActivateStaticRule
  \/ MergeScheduleStaticRule
  \/ MergeDeactivateStaticRule
  \/ MergeDeactivateScheduledStaticRule
  \/ MergeInsertDynamicRule
  \/ MergeScheduleDynamicRule
  \/ MergeRemoveDynamicRule
  \/ MergeRemoveScheduledDynamicRule
  \/ MergeInsertGyDynamicRule
  \/ MergeRemoveGyDynamicRule
  \/ MergeActivateRestrictRule
  \/ MergeDeactivateRestrictRule
  \/ MergeJournal

MergeSpec == Init /\ [][MergeNext]_vars

\* ------------------------------------------------------------------------
\* A session that reports usage of installed and of removed rules against
\* charging grants and against monitors of both levels
\* ------------------------------------------------------------------------
UsageBounds == Bounds(UsageMaxUsed, UsageMaxAllowed, UsageMaxReq)
UsageRules == StaticRules \cup DynamicRules

InstallRule(B) ==
  /\ \E rule_id \in DynamicRules :
       Becomes(insert_dynamic_rule(Cur, rule_id, NoLifetime),
               "insert_dynamic_rule", B)
  /\ UNCHANGED enforcer_vars

RemoveRule(B) ==
  /\ \E rule_id \in DynamicRules :
       /\ is_dynamic_rule_installed(Cur, rule_id)
       /\ Becomes(remove_dynamic_rule(Cur, rule_id), "remove_dynamic_rule", B)
  /\ UNCHANGED enforcer_vars

\* the answers that carry a grant
UsageCreditGrants ==
  {u \in PlainCreditUpdateResponses(UsageBounds) : u.success}
UsageMonitorGrants ==
  {u \in UsageMonitoringUpdateResponses(UsageBounds) :
     u.success /\ u.has_credit}

UsageNext ==
  \/ AddRuleUsage(UsageRules, UsageBounds)
  \/ ReceiveChargingCredit(UsageCreditGrants, UsageBounds)
  \/ ReceiveMonitor(UsageMonitorGrants, UsageBounds)
  \/ InstallRule(UsageBounds)
  \/ RemoveRule(UsageBounds)

UsageSpec == Init /\ [][UsageNext]_vars

\* ------------------------------------------------------------------------
\* A session with a monitor of its rules and a monitor of the whole session
\* under a key that no rule carries
\* ------------------------------------------------------------------------
SessionLevelMKey == "ms"
SessionMonitorGrants ==
  [key : {SessionLevelMKey}, success : {TRUE}, has_credit : {TRUE},
   level : {"SESSION_LEVEL"}, action : {"CONTINUE", "DISABLE"},
   granted : 0..UsageMaxAllowed]

MonitorNext ==
  \/ AddRuleUsage(UsageRules, UsageBounds)
  \/ ReceiveMonitor(UsageMonitorGrants, UsageBounds)
  \/ ReceiveMonitor(SessionMonitorGrants, UsageBounds)

MonitorSpec == Init /\ [][MonitorNext]_vars

\* ------------------------------------------------------------------------
\* A session that is given final grants, uses them up and collects the
\* service actions
\* ------------------------------------------------------------------------
FinalBounds == Bounds(FinalMaxUsed, FinalMaxAllowed, FinalMaxReq)
FinalCreditUpdates == CreditUpdateResponses(FinalBounds)

FinalNext ==
  \/ AddRuleUsage(StaticRules, FinalBounds)
  \/ GetUpdates(FinalBounds)
  \/ ReceiveChargingCredit(FinalCreditUpdates, FinalBounds)

FinalSpec == Init /\ [][FinalNext]_vars

\* ------------------------------------------------------------------------
\* A session with up to two grants that are re-authorised one by one or all
\* at once
\* ------------------------------------------------------------------------
ReauthBounds == Bounds(ReauthMaxUsed, ReauthMaxAllowed, ReauthMaxReq)
ReauthCreditUpdates ==
  [key : AllCKeys, success : {TRUE}, granted : 0..ReauthMaxAllowed,
   is_final : {FALSE}, final_action : {"TERMINATE"}]

ReauthAnyKey(B) ==
  /\ \E key \in AllCKeys : Becomes(reauth_key(Cur, key), "reauth_key", B)
  /\ UNCHANGED enforcer_vars

ReauthAll(B) ==
  /\ Becomes(reauth_all(Cur), "reauth_all", B)
  /\ UNCHANGED enforcer_vars

ReauthAllNext ==
  \/ AddRuleUsage(StaticRules, ReauthBounds)
  \/ GetUpdates(ReauthBounds)
  \/ ReceiveChargingCredit(ReauthCreditUpdates, ReauthBounds)
  \/ ReauthAnyKey(ReauthBounds)
  \/ ReauthAll(ReauthBounds)

ReauthAllSpec == Init /\ [][ReauthAllNext]_vars

\* ------------------------------------------------------------------------
\* A session whose reports are answered with grants and with failures, for
\* its charging key and for its monitors
\* ------------------------------------------------------------------------
NackCreditUpdates == PlainCreditUpdateResponses(UsageBounds)
NackMonitorUpdates == UsageMonitoringUpdateResponses(UsageBounds)

NackNext ==
  \/ AddRuleUsage(StaticRules, UsageBounds)
  \/ GetUpdates(UsageBounds)
  \/ ReceiveChargingCredit(NackCreditUpdates, UsageBounds)
  \/ ReceiveMonitor(NackMonitorUpdates, UsageBounds)

NackSpec == Init /\ [][NackNext]_vars

\* ------------------------------------------------------------------------
\* RuleSetSpec: a message with the rule sets of a subscriber, subscriber-wide
\* and per APN in any order, at most MaxRuleSets of them, and the combined
\* rule set asked for each APN
\* ------------------------------------------------------------------------
APNs == {"apn1", "apn2"}
\* the dynamic rules of a rule set: none, or d1 as one of two policy rules
DynamicRuleInstalls ==
  {EmptyMap} \cup {[r \in DynamicRules |-> p] : p \in {"p1", "p2"}}
\* magma::lte::RuleSet
RuleSetMessages ==
  [apply_subscriber_wide : BOOLEAN, apn : APNs,
   static_rules : SUBSET MergeStaticRules, dynamic_rules : DynamicRuleInstalls]

\* the message of the subscriber has one more rule set, and a
\* RuleSetBySubscriber is built from it
ReceiveRuleSets ==
  /\ Len(rules_per_subscriber) < MaxRuleSets
  /\ \E rule_set \in RuleSetMessages :
       /\ rules_per_subscriber' = Append(rules_per_subscriber, rule_set)
       /\ rule_set_by_subscriber' =
            RuleSetBySubscriber(Append(rules_per_subscriber, rule_set))
  /\ combined_rule_set' = [apn |-> "", rule_set |-> {}]
  /\ last_op' = "RuleSetBySubscriber"
  /\ UNCHANGED <<curr_state_, request_number_, credit_map_, monitor_map_,
                 session_level_key_, pending_event_triggers_,
                 active_static_rules_, scheduled_static_rules_, dynamic_rules_,
                 scheduled_dynamic_rules_, rule_lifetimes_, gy_dynamic_rules_,
                 active_restrict_rules_, bearer_id_by_policy_, config_, sent,
                 report_count, session_in_store, timers>>

GetCombinedRuleSetForApn ==
  /\ \E apn \in APNs :
       combined_rule_set' =
         [apn |-> apn,
          rule_set |->
            get_combined_rule_set_for_apn(rule_set_by_subscriber, apn)]
  /\ last_op' = "get_combined_rule_set_for_apn"
  /\ UNCHANGED <<curr_state_, request_number_, credit_map_, monitor_map_,
                 session_level_key_, pending_event_triggers_,
                 active_static_rules_, scheduled_static_rules_, dynamic_rules_,
                 scheduled_dynamic_rules_, rule_lifetimes_, gy_dynamic_rules_,
                 active_restrict_rules_, bearer_id_by_policy_, config_, sent,
                 report_count, session_in_store, timers,
                 rules_per_subscriber, rule_set_by_subscriber>>

RuleSetNext ==
  \/ ReceiveRuleSets
  \/ GetCombinedRuleSetForApn

RuleSetSpec == Init /\ [][RuleSetNext]_vars

\* ------------------------------------------------------------------------
\* Properties
\* ------------------------------------------------------------------------
\* the requests of kind and key among the requests out of a call
Updates(requests, kind, key) ==
  {i \in 1..Len(requests) : requests[i].kind = kind /\ requests[i].key = key}

\* C1: once the state of a session is TERMINATED it never changes again,
\* whatever operation of the session is called
C1_TerminatedIsAbsorbing ==
  [][curr_state_ = "SESSION_TERMINATED" => curr_state_' = "SESSION_TERMINATED"]_vars

\* a terminated session, whose terminate request was reported, awaits
\* termination again
C1_TerminatedSessionReopened ==
  /\ last_op = "mark_as_awaiting_termination"
  /\ curr_state_ = "SESSION_TERMINATION_SCHEDULED"
  /\ report_count = 1

\* C2: once the termination of a session has started the session is not
\* ACTIVE, and get_updates on a session that is not ACTIVE emits nothing and
\* leaves the request number, the credit buckets, the event triggers and the
\* journal as they are
C2_NoUpdatesOnceTerminationStarted ==
  /\ (timers > 0 \/ ~session_in_store) => curr_state_ # "SESSION_ACTIVE"
  /\ curr_state_ # "SESSION_ACTIVE" => get_updates(Cur) = Cur

\* get_updates has run on a session that awaits termination while a charging
\* update, a monitor update and an event trigger update were due
C2_UpdatesDueWhileTerminating ==
  /\ last_op = "get_updates"
  /\ curr_state_ = "SESSION_TERMINATION_SCHEDULED"
  /\ Has(credit_map_, "rg10")
  /\ get_update_type(credit_map_["rg10"]) = "QUOTA_EXHAUSTED"
  /\ Has(monitor_map_, "m1")
  /\ is_quota_exhausted(monitor_map_["m1"].credit, TOTAL_EXHAUSTION)
  /\ Has(pending_event_triggers_, REVALIDATION_TIMEOUT)
  /\ pending_event_triggers_[REVALIDATION_TIMEOUT] = "READY"

C4_TerminateRequestConsumesRequestNumber ==
  [][report_count' = report_count + 1 =>
       /\ sent'[Len(sent')] = request_number_
       /\ request_number_' = request_number_ + 1
       /\ make_termination_request(Cur).uc.request_number_increment = 1]_vars

\* a terminate request was reported and the request number is the one it
\* carries
C4_RequestNumberNotConsumed ==
  /\ last_op = "complete_termination"
  /\ report_count = 1
  /\ sent[Len(sent)] = request_number_

\* C5: a session whose termination was started is eventually TERMINATED
C5_TerminationCompletes ==
  (curr_state_ = "SESSION_TERMINATION_SCHEDULED")
    ~> (curr_state_ = "SESSION_TERMINATED")

\* the force-termination callback has run and the session is terminated
C5_TerminatedSession ==
  /\ last_op = "complete_termination"
  /\ curr_state_ = "SESSION_TERMINATED"
  /\ timers = 0
  /\ ~session_in_store

\* C6 as claimed: complete_termination on a session that is ACTIVE moves it
\* to TERMINATED and reports the terminate request
C6_ActiveSessionForcedToTerminated ==
  [][(last_op' = "complete_termination" /\ curr_state_ = "SESSION_ACTIVE") =>
       (curr_state_' = "SESSION_TERMINATED" /\ report_count' = report_count + 1)]_vars

\* C6: complete_termination on a session that is ACTIVE does nothing: the
\* session stays ACTIVE, no terminate request is built or reported, and the
\* journal stays empty
C6_ActiveSessionNotTerminated ==
  curr_state_ = "SESSION_ACTIVE" => complete_termination(Cur) = Cur

\* complete_termination has run on a session that is ACTIVE
C6_CompletionOnActiveSession ==
  /\ last_op = "complete_termination"
  /\ curr_state_ = "SESSION_ACTIVE"
  /\ report_count = 0

\* C7: at most one terminate request is reported for a session, whichever of
\* the two completion paths runs first: the second call of complete_termination
\* finds the session TERMINATED, or the session gone, and does nothing
C7_AtMostOneTerminateRequest ==
  /\ report_count <= 1
  /\ complete_termination(complete_termination(Cur)).report_count <= 1

\* the force-termination callback ran after the termination was completed by
\* a report without the flows of the session
C7_BothCompletionPathsRan ==
  /\ last_op = "handle_force_termination_timeout"
  /\ report_count = 1
  /\ curr_state_ = "SESSION_TERMINATED"

\* C8: for every charging key, reported_tx <= used_tx and
\* reported_rx <= used_rx
C8_ReportedWithinUsed ==
  \A key \in DOMAIN credit_map_ :
    /\ credit_map_[key].credit.reported_tx <= credit_map_[key].credit.used_tx
    /\ credit_map_[key].credit.reported_rx <= credit_map_[key].credit.used_rx

\* a response has acknowledged reported usage in both directions
C8_UsageAcknowledged ==
  /\ last_op = "receive_charging_credit"
  /\ Has(credit_map_, "rg10")
  /\ credit_map_["rg10"].credit.reported_tx = 1
  /\ credit_map_["rg10"].credit.reported_rx = 1

\* C9: while the reporting bucket of a charging key or of a monitoring key
\* is above 0, get_updates emits no update for that key
C9_UpdatesAreCoalesced ==
  /\ \A key \in DOMAIN credit_map_ :
       is_reporting(credit_map_[key].credit) =>
         Updates(get_updates(Cur).out, "credit", key) = {}
  /\ \A key \in DOMAIN monitor_map_ :
       is_reporting(monitor_map_[key].credit) =>
         Updates(get_updates(Cur).out, "monitor", key) = {}

\* a monitor update is in flight for m1, and get_updates emits one more
C9_MonitorUpdateRepeated ==
  /\ last_op = "get_updates"
  /\ Has(monitor_map_, "m1")
  /\ is_reporting(monitor_map_["m1"].credit)
  /\ Updates(get_updates(Cur).out, "monitor", "m1") # {}

\* the reset of a charging key, as C10 states it
reset_retries_charging_key(key) ==
  LET st == reset_reporting_charging_credit(Cur, key) IN
  IF ~Has(credit_map_, key)
    THEN ~st.ret /\ st.credit_map_ = credit_map_ /\ st.uc = NewUC
    ELSE LET before == credit_map_[key].credit
             after == st.credit_map_[key].credit
         IN /\ st.ret
            /\ ~is_reporting(after)
            /\ after = reset_reporting_credit(before)
            /\ (curr_state_ = "SESSION_ACTIVE" /\ is_reporting(before)) =>
                 \E i \in Updates(get_updates(st).out, "credit", key) :
                   /\ get_updates(st).out[i].tx = before.used_tx - before.reported_tx
                   /\ get_updates(st).out[i].rx = before.used_rx - before.reported_rx

\* the reset of a monitoring key, as C10 states it
reset_retries_monitoring_key(key) ==
  LET st == reset_reporting_monitor(Cur, key) IN
  IF ~Has(monitor_map_, key)
    THEN ~st.ret /\ st.monitor_map_ = monitor_map_ /\ st.uc = NewUC
    ELSE LET before == monitor_map_[key].credit
             after == st.monitor_map_[key].credit
         IN /\ st.ret
            /\ ~is_reporting(after)
            /\ after = reset_reporting_credit(before)
            /\ (curr_state_ = "SESSION_ACTIVE" /\ is_reporting(before)) =>
                 \E i \in Updates(get_updates(st).out, "monitor", key) :
                   /\ get_updates(st).out[i].tx = before.used_tx - before.reported_tx
                   /\ get_updates(st).out[i].rx = before.used_rx - before.reported_rx

\* C10: the reset of a key of a failed request sets its reporting buckets to
\* 0 and leaves used, reported and allowed as they are, so that the next
\* get_updates emits an update for that key with the same usage again; for a
\* key that is not in the session the reset returns false and changes nothing
C10_ResetRetriesTheUpdate ==
  /\ \A key \in AllCKeys : reset_retries_charging_key(key)
  /\ \A key \in AllMKeys : reset_retries_monitoring_key(key)

\* the report of a re-authorisation was reset, and the grant, which has
\* quota left, still waits for the answer to it
C10_ReauthUpdateNotRetried ==
  /\ last_op = "reset_reporting_charging_credit"
  /\ curr_state_ = "SESSION_ACTIVE"
  /\ Has(credit_map_, "rg10")
  /\ credit_map_["rg10"].reauth_state = "REAUTH_PROCESSING"
  /\ ~is_reporting(credit_map_["rg10"].credit)
  /\ get_updates(Cur).out = <<>>

\* the lifetime window of a rule is over at time: its deactivation time is
\* set and has passed
expired(lifetime, time) ==
  lifetime.deactivation_time > 0 /\ lifetime.deactivation_time < time

\* C11: no rule id is at once in the active and in the scheduled store of
\* the same type: not in the active static list and the scheduled static
\* set, and not in the active and the scheduled dynamic store
C11_NoRuleBothActiveAndScheduled ==
  /\ Range(active_static_rules_) \cap scheduled_static_rules_ = {}
  /\ dynamic_rules_ \cap scheduled_dynamic_rules_ = {}

\* a rule set has installed a static rule that is scheduled, and the rule is
\* still scheduled
C11_ScheduledRuleInstalledByRuleSet ==
  /\ last_op = "apply_session_rule_set"
  /\ "r1" \in Range(active_static_rules_)
  /\ "r1" \in scheduled_static_rules_
  /\ rule_lifetimes_["r1"] = NoLifetime

\* C12: after sync_rules_to_time(now) no rule of the active static list or
\* of the active dynamic store has an expired lifetime, and every active
\* rule that had one is journaled as an uninstall
C12_NoExpiredRuleLeftActive ==
  \A now \in 0..MaxTime, stale \in StaleRuleIds :
    LET st == sync_rules_to_time(Cur, now, stale) IN
    /\ \A r \in Range(st.active_static_rules_) \cup st.dynamic_rules_ :
         ~expired(lifetime_of(st, r), now)
    /\ \A r \in Range(active_static_rules_) :
         expired(lifetime_of(Cur, r), now) => r \in st.uc.static_rules_to_uninstall
    /\ \A r \in dynamic_rules_ :
         expired(lifetime_of(Cur, r), now) => r \in st.uc.dynamic_rules_to_uninstall

\* sync_rules_to_time has deactivated the expired rule r1 at the head of the
\* active static list, has read the destroyed string past the new end of the
\* list, and has left r2, which follows r1 and is expired too
C12_AdjacentExpiredRuleSkipped ==
  /\ last_op = "sync_rules_to_time"
  /\ active_static_rules_ = <<"r2">>
  /\ Has(rule_lifetimes_, NoRule)
  /\ Has(rule_lifetimes_, "r1") /\ rule_lifetimes_["r1"] = RuleLifetime(0, 1)
  /\ rule_lifetimes_["r2"] = RuleLifetime(0, 1)
  /\ scheduled_static_rules_ = {}

\* what C13 says of the scheduled rule r, whose lifetime was lifetime, once
\* sync_rules_to_time(now) has left the session st; active and scheduled
\* give the ids of the active and of the scheduled store of its type
scheduled_rule_synced(st, r, lifetime, now, active, scheduled, was_active) ==
  /\ (lifetime.activation_time < now /\ ~expired(lifetime, now)) =>
       (r \in active /\ r \notin scheduled)
  /\ expired(lifetime, now) =>
       (r \notin scheduled /\ (r \in active => was_active))
  /\ (lifetime.activation_time >= now /\ ~expired(lifetime, now)) =>
       (r \in scheduled /\ lifetime_of(st, r) = lifetime)

\* C13: sync_rules_to_time(now) moves a scheduled rule whose window contains
\* now to the active store, removes a scheduled rule whose deactivation time
\* has passed without activating it, and leaves a scheduled rule whose
\* activation time is not before now scheduled and unchanged
C13_ScheduledRulesPartitioned ==
  \A now \in 0..MaxTime, stale \in StaleRuleIds :
    LET st == sync_rules_to_time(Cur, now, stale) IN
    /\ \A r \in scheduled_static_rules_ :
         scheduled_rule_synced(st, r, lifetime_of(Cur, r), now,
                               Range(st.active_static_rules_),
                               st.scheduled_static_rules_,
                               r \in Range(active_static_rules_))
    /\ \A r \in scheduled_dynamic_rules_ :
         scheduled_rule_synced(st, r, lifetime_of(Cur, r), now,
                               st.dynamic_rules_, st.scheduled_dynamic_rules_,
                               r \in dynamic_rules_)

\* sync_rules_to_time has moved the scheduled rule r1 to the active list and
\* left r2, whose activation time was not reached, scheduled; the dynamic
\* rule d1 has been dropped
C13_ScheduledRulesSynced ==
  /\ last_op = "sync_rules_to_time"
  /\ active_static_rules_ = <<"r1">>
  /\ scheduled_static_rules_ = {"r2"}
  /\ rule_lifetimes_["r1"] = RuleLifetime(0, 1)
  /\ rule_lifetimes_["r2"] = RuleLifetime(1, 0)
  /\ Has(rule_lifetimes_, "d1") /\ rule_lifetimes_["d1"] = RuleLifetime(0, 1)
  /\ dynamic_rules_ = {} /\ scheduled_dynamic_rules_ = {}

\* C14 as claimed: should_rule_be_active(rule, t) is true exactly when
\* activationTime < t and the deactivation time is 0 or after t, so that a
\* rule is not active at its deactivation time
C14_NotActiveAtDeactivationTime ==
  \A r \in DOMAIN rule_lifetimes_, t \in 0..MaxTime :
    should_rule_be_active(Cur, r, t) <=>
      /\ rule_lifetimes_[r].activation_time < t
      /\ \/ rule_lifetimes_[r].deactivation_time = 0
         \/ rule_lifetimes_[r].deactivation_time > t

\* C14: should_rule_be_active(rule, t) is true exactly when
\* activationTime < t and the deactivation time is 0 or not before t: a rule
\* is still active at its deactivation time
C14_ActiveThroughDeactivationTime ==
  \A r \in DOMAIN rule_lifetimes_, t \in 0..MaxTime :
    should_rule_be_active(Cur, r, t) <=>
      /\ rule_lifetimes_[r].activation_time < t
      /\ \/ rule_lifetimes_[r].deactivation_time = 0
         \/ rule_lifetimes_[r].deactivation_time >= t

\* sync_rules_to_time has run on a session whose rule r1 is active at its
\* deactivation time
C14_RuleActiveAtDeactivationTime ==
  /\ last_op = "sync_rules_to_time"
  /\ "r1" \in Range(active_static_rules_)
  /\ rule_lifetimes_["r1"].deactivation_time > 0
  /\ should_rule_be_active(Cur, "r1", rule_lifetimes_["r1"].deactivation_time)

\* C15: after apply_session_rule_set(rule_set) the active static rule ids are
\* the static rules of the set and the active dynamic rule ids the dynamic
\* rules of the set; rules_to_activate holds the rules of the set that were
\* not active, rules_to_deactivate the active rules that are not in the set;
\* a second application yields empty deltas and changes nothing
C15_RuleSetReplacesActiveRules ==
  \A rule_set \in RuleSets :
    LET st == apply_session_rule_set(Cur, rule_set)
        again == apply_session_rule_set(
                   [st EXCEPT !.uc = NewUC, !.rules_to_activate = RulesToProcess,
                              !.rules_to_deactivate = RulesToProcess],
                   rule_set)
    IN /\ Range(st.active_static_rules_) = rule_set.static_rules
       /\ st.dynamic_rules_ = rule_set.dynamic_rules
       /\ Range(st.rules_to_activate.static_rules) =
            rule_set.static_rules \ Range(active_static_rules_)
       /\ Range(st.rules_to_activate.dynamic_rules) =
            rule_set.dynamic_rules \ dynamic_rules_
       /\ Range(st.rules_to_deactivate.static_rules) =
            Range(active_static_rules_) \ rule_set.static_rules
       /\ Range(st.rules_to_deactivate.dynamic_rules) =
            dynamic_rules_ \ rule_set.dynamic_rules
       /\ again = [st EXCEPT !.uc = NewUC, !.rules_to_activate = RulesToProcess,
                             !.rules_to_deactivate = RulesToProcess]

\* a rule set has replaced the active static rule r1 by r2 and installed
\* the dynamic rule d1
C15_RuleSetApplied ==
  /\ last_op = "apply_session_rule_set"
  /\ active_static_rules_ = <<"r2">>
  /\ dynamic_rules_ = {"d1"}
  /\ Has(rule_lifetimes_, "r1")
  /\ rule_lifetimes_["r2"] = NoLifetime
  /\ rule_lifetimes_["d1"] = NoLifetime

charging_key_of_rule(rule_id) ==
  IF rule_id \in DynamicRules THEN dynamic_charging_key[rule_id]
  ELSE static_charging_key[rule_id]

\* C17: usage reported for a static or dynamic rule that is not installed in
\* the session is added to the used buckets of the grant of the rule's
\* charging key when the credit map holds that key, and only the
\* ue-reported-usage metric is left alone
C17_UsageOfUninstalledRuleCharged ==
  \A rule_id \in UsageRules, u \in UsageInputs :
    LET after == add_rule_usage(Cur, rule_id, u[1], u[2])
        key == charging_key_of_rule(rule_id)
    IN (/\ ~is_dynamic_rule_installed(Cur, rule_id)
        /\ ~is_static_rule_installed(Cur, rule_id)
        /\ key # NoKey
        /\ Has(credit_map_, key)) =>
         /\ Has(after.credit_map_, key)
         /\ after.credit_map_[key].credit.used_tx
              = credit_map_[key].credit.used_tx + u[1]
         /\ after.credit_map_[key].credit.used_rx
              = credit_map_[key].credit.used_rx + u[2]
         /\ after.ue_reported_usage = NoUsage

\* a dynamic rule was removed while its grant is held, and its usage is
\* no longer charged to the grant
C17_RemovedDynamicRuleNotCharged ==
  /\ last_op = "remove_dynamic_rule"
  /\ \E rule_id \in DynamicRules, u \in UsageInputs :
       /\ ~is_dynamic_rule_installed(Cur, rule_id)
       /\ Has(credit_map_, dynamic_charging_key[rule_id])
       /\ add_rule_usage(Cur, rule_id, u[1], u[2]).credit_map_ = credit_map_

\* C18: whenever a session-level key is set, one add_rule_usage(rule, tx, rx)
\* adds (tx, rx) to the session-level monitor exactly once, whether the
\* rule's own monitoring key is the session-level key, another key or none
C18_SessionLevelMonitorChargedOnce ==
  \A rule_id \in UsageRules, u \in UsageInputs :
    LET after == add_rule_usage(Cur, rule_id, u[1], u[2])
        key == session_level_key_
    IN key # NoKey =>
         /\ Has(monitor_map_, key)
         /\ Has(after.monitor_map_, key)
         /\ after.monitor_map_[key].credit
              = add_used_credit(monitor_map_[key].credit, u[1], u[2])

\* C18 as the code has it: the session-level monitor is charged exactly once
\* when the monitor map holds it and it is not due for deletion; a monitor
\* due for deletion is erased instead, and nothing is charged once it is gone
C18_SessionLevelMonitorChargedOnceWhileHeld ==
  \A rule_id \in UsageRules, u \in UsageInputs :
    LET after == add_rule_usage(Cur, rule_id, u[1], u[2])
        key == session_level_key_
    IN key # NoKey =>
         IF Has(monitor_map_, key) /\ ~should_delete_monitor(monitor_map_[key])
           THEN /\ Has(after.monitor_map_, key)
                /\ after.monitor_map_[key].credit
                     = add_used_credit(monitor_map_[key].credit, u[1], u[2])
           ELSE ~Has(after.monitor_map_, key)

\* usage was added while the session-level monitor and the monitor of the
\* rules are held under two keys, and each of them was charged
C18_BothMonitorsCharged ==
  /\ last_op = "add_rule_usage"
  /\ session_level_key_ = SessionLevelMKey
  /\ Has(monitor_map_, SessionLevelMKey)
  /\ Has(monitor_map_, "m1")
  /\ monitor_map_[SessionLevelMKey].credit.used_tx = 1
  /\ monitor_map_["m1"].credit.used_tx = 1

\* the credit map, the monitor map and the rule stores of st are those of
\* the session
maps_and_rule_stores_kept(st) ==
  /\ st.credit_map_ = credit_map_
  /\ st.monitor_map_ = monitor_map_
  /\ st.active_static_rules_ = active_static_rules_
  /\ st.scheduled_static_rules_ = scheduled_static_rules_
  /\ st.dynamic_rules_ = dynamic_rules_
  /\ st.scheduled_dynamic_rules_ = scheduled_dynamic_rules_

\* the monitoring answers given to a session that may be terminated
SessionMonitorUpdates == UsageMonitoringUpdateResponses(SessionBounds)

\* C19: on a session in state TERMINATED, receive_charging_credit,
\* receive_monitor, add_rule_usage, activate_static_rule, insert_dynamic_rule
\* and apply_session_rule_set leave the credit map, the monitor map and every
\* rule store unchanged
C19_TerminatedSessionAcceptsNothing ==
  curr_state_ = "SESSION_TERMINATED" =>
    /\ \A update \in SessionCreditUpdates :
         maps_and_rule_stores_kept(receive_charging_credit(Cur, update))
    /\ \A update \in SessionMonitorUpdates :
         maps_and_rule_stores_kept(receive_monitor(Cur, update))
    /\ \A rule_id \in StaticRules, u \in UsageInputs :
         maps_and_rule_stores_kept(add_rule_usage(Cur, rule_id, u[1], u[2]))
    /\ \A rule_id \in SessionStaticRules, lifetime \in Lifetimes :
         maps_and_rule_stores_kept(activate_static_rule(Cur, rule_id, lifetime))
    /\ \A rule_id \in DynamicRules, lifetime \in Lifetimes :
         maps_and_rule_stores_kept(insert_dynamic_rule(Cur, rule_id, lifetime))
    /\ \A rule_set \in RuleSets :
         maps_and_rule_stores_kept(apply_session_rule_set(Cur, rule_set))

\* a terminated session was given a credit answer, and would take another one
\* into its credit map and a static rule into its active rules
C19_TerminatedSessionReceivedCredit ==
  /\ curr_state_ = "SESSION_TERMINATED"
  /\ last_op = "receive_charging_credit"
  /\ \E update \in SessionCreditUpdates :
       receive_charging_credit(Cur, update).credit_map_ # credit_map_
  /\ \E rule_id \in SessionStaticRules, lifetime \in Lifetimes :
       activate_static_rule(Cur, rule_id, lifetime).active_static_rules_
         # active_static_rules_

\* C20: when get_updates derives the action REDIRECT for a grant, it emits
\* one REDIRECT service action for the key that carries the redirect server,
\* and afterwards the service state of the grant is REDIRECTED in the
\* session and in the journal
C20_RedirectLeavesGrantRedirected ==
  \A key \in DOMAIN credit_map_ :
    (/\ curr_state_ = "SESSION_ACTIVE"
     /\ get_action_type(credit_map_[key]) = "REDIRECT") =>
      LET after == get_updates(Cur)
          actions == {i \in 1..Len(after.actions_out) :
                        after.actions_out[i].key = key}
      IN /\ Cardinality(actions) = 1
         /\ \A i \in actions : /\ after.actions_out[i].type = "REDIRECT"
                                /\ after.actions_out[i].redirect_server
         /\ after.credit_map_[key].service_state = "SERVICE_REDIRECTED"
         /\ after.uc.charging_credit_map[key].service_state
              = "SERVICE_REDIRECTED"

\* get_updates has acted on a used-up final grant whose action is REDIRECT,
\* and the grant is left restricted
C20_RedirectedGrantRestricted ==
  /\ last_op = "get_updates"
  /\ \E key \in DOMAIN credit_map_ :
       /\ credit_map_[key].is_final_grant
       /\ credit_map_[key].final_action = "REDIRECT"
       /\ credit_map_[key].service_state = "SERVICE_RESTRICTED"

\* C21: reauth_key on a grant with a report in flight returns
\* UPDATE_NOT_NEEDED and leaves the grant and the journal as they were, and
\* marks a grant without one REQUIRED; reauth_all marks exactly the grants
\* that are not reporting and returns UPDATE_INITIATED exactly when there is
\* one
C21_ReauthSkipsReportingGrants ==
  /\ \A key \in DOMAIN credit_map_ :
       LET after == reauth_key(Cur, key)
       IN IF is_reporting(credit_map_[key].credit)
            THEN /\ ~after.ret
                 /\ after.credit_map_ = credit_map_
                 /\ after.uc = NewUC
            ELSE /\ after.ret
                 /\ after.credit_map_ =
                      [credit_map_ EXCEPT ![key].reauth_state = "REAUTH_REQUIRED"]
                 /\ Has(after.uc.charging_credit_map, key)
  /\ LET after == reauth_all(Cur)
     IN /\ after.ret = (\E key \in DOMAIN credit_map_ :
                          ~is_reporting(credit_map_[key].credit))
        /\ DOMAIN after.credit_map_ = DOMAIN credit_map_
        /\ \A key \in DOMAIN credit_map_ :
             IF is_reporting(credit_map_[key].credit)
               THEN /\ after.credit_map_[key] = credit_map_[key]
                    /\ ~Has(after.uc.charging_credit_map, key)
               ELSE /\ after.credit_map_[key] =
                         [credit_map_[key] EXCEPT
                            !.reauth_state = "REAUTH_REQUIRED"]
                    /\ Has(after.uc.charging_credit_map, key)

\* reauth_all has run on a session with a grant that reports, which it left
\* alone, and a grant that does not, which it marked
C21_ReauthAllMarkedOneOfTwo ==
  /\ last_op = "reauth_all"
  /\ \E reporting, idle \in DOMAIN credit_map_ :
       /\ is_reporting(credit_map_[reporting].credit)
       /\ credit_map_[reporting].reauth_state = "REAUTH_NOT_NEEDED"
       /\ ~is_reporting(credit_map_[idle].credit)
       /\ credit_map_[idle].reauth_state = "REAUTH_REQUIRED"

\* C22: a get_updates that emits the REAUTH_REQUIRED update of a grant marked
\* REQUIRED leaves the grant in PROCESSING, and the response for the key of a
\* grant in PROCESSING, successful or not, leaves it in NOT_NEEDED
C22_ReauthCycleCloses ==
  /\ \A key \in DOMAIN credit_map_ :
       LET after == get_updates(Cur)
       IN (/\ credit_map_[key].reauth_state = "REAUTH_REQUIRED"
           /\ \E i \in Updates(after.out, "credit", key) :
                after.out[i].type = "REAUTH_REQUIRED") =>
            after.credit_map_[key].reauth_state = "REAUTH_PROCESSING"
  /\ \A update \in SessionCreditUpdates :
       (/\ Has(credit_map_, update.key)
        /\ credit_map_[update.key].reauth_state = "REAUTH_PROCESSING") =>
         receive_charging_credit(Cur, update).credit_map_[update.key].reauth_state
           = "REAUTH_NOT_NEEDED"

\* the response to a REAUTH_REQUIRED update was applied and the grant is still
\* in PROCESSING with no report in flight
C22_GrantLeftProcessing ==
  /\ last_op = "receive_charging_credit"
  /\ \E key \in DOMAIN credit_map_ :
       /\ credit_map_[key].reauth_state = "REAUTH_PROCESSING"
       /\ ~is_reporting(credit_map_[key].credit)
       /\ credit_map_[key].credit.used_tx + credit_map_[key].credit.used_rx > 0

\* C23: init_charging_reauth for a subscriber and session id that match no
\* session of the session map returns SESSION_NOT_FOUND and leaves the
\* session, its grants, the session map and the journal as they were
C23_ReauthOfUnknownSessionMutatesNothing ==
  \A request \in ChargingReAuthRequests :
    ~session_found(session_in_store, request) =>
      init_charging_reauth(Cur, session_in_store, request) =
        [session |-> Cur, session_in_store |-> session_in_store,
         result |-> "SESSION_NOT_FOUND"]
\* a re-authorisation request was the last call, after the session with a
\* grant had left the session map
C23_ReauthAfterSessionLeft ==
  /\ last_op = "init_charging_reauth"
  /\ ~session_in_store
  /\ credit_map_ # EmptyMap

\* C24: bind_policy_to_bearer of the enforcer with a bearer id that is not 0
\* records the bearer id under the policy of an installed rule, in the session
\* and in the journal, and records nothing for a rule that is not installed;
\* with bearer id 0 it leaves the bearer map as it is and removes the rule
\* from the session; and the bearer map holds 0 for no policy
C24_BindRecordsBearerOrRemovesRule ==
  /\ \A policy \in DOMAIN bearer_id_by_policy_ : bearer_id_by_policy_[policy] # 0
  /\ \A request \in PolicyBearerBindingRequests :
       LET bound == LocalEnforcer_bind_policy_to_bearer(Cur, session_in_store,
                                                        request)
           after == bound.session
           rule_id == request.policy_rule_id
           policy_type == get_policy_type(Cur, rule_id)
       IN (session_in_store /\ request.sid = IMSI) =>
            IF request.bearer_id # 0
              THEN IF policy_type = NoPolicyType THEN after = Cur
                   ELSE /\ after.bearer_id_by_policy_ =
                             Put(bearer_id_by_policy_,
                                 PolicyID(policy_type, rule_id),
                                 request.bearer_id)
                        /\ after.uc.is_bearer_mapping_updated
                        /\ after.uc.bearer_id_by_policy = after.bearer_id_by_policy_
                        /\ after.active_static_rules_ = active_static_rules_
                        /\ after.dynamic_rules_ = dynamic_rules_
              ELSE /\ after.bearer_id_by_policy_ = bearer_id_by_policy_
                   /\ ~after.uc.is_bearer_mapping_updated
                   /\ get_policy_type(after, rule_id) = NoPolicyType
                   /\ policy_type = "STATIC" =>
                        rule_id \in after.uc.static_rules_to_uninstall
                   /\ policy_type = "DYNAMIC" =>
                        rule_id \in after.uc.dynamic_rules_to_uninstall
\* a rule was removed because its bearer was not created, in a session that
\* holds the bearer of another installed rule
C24_RuleRemovedAndBearerBound ==
  /\ last_op = "remove_rule_due_to_bearer_creation_failure"
  /\ \E rule_id \in BearerRules : get_policy_type(Cur, rule_id) = NoPolicyType
  /\ \E rule_id \in BearerRules :
       /\ get_policy_type(Cur, rule_id) # NoPolicyType
       /\ Has(bearer_id_by_policy_,
              PolicyID(get_policy_type(Cur, rule_id), rule_id))

\* the rule carries QoS with a QCI that is not the one of the default bearer,
\* in an LTE session that holds no bearer for it
needs_dedicated_bearer(policy_type, rule_id) ==
  /\ config_.has_lte_context
  /\ ~Has(bearer_id_by_policy_, PolicyID(policy_type, rule_id))
  /\ rule_qos(policy_type, rule_id).has_qos
  /\ rule_qos(policy_type, rule_id).qci # config_.qos_class_id

\* the rules a call activated or deactivated: static rules of the rule store
\* and dynamic rules of the session
ActivatedRules ==
  {[static_rules |-> in_order(static_rules),
    dynamic_rules |-> in_order(dynamic_rules)] :
     static_rules \in SUBSET StaticRules, dynamic_rules \in SUBSET dynamic_rules_}
DeactivatedRules ==
  {[static_rules |-> in_order(static_rules),
    dynamic_rules |-> in_order(dynamic_rules)] :
     static_rules \in SUBSET SessionStaticRules,
     dynamic_rules \in SUBSET DynamicRules}

\* C25: the bearer creation request of get_dedicated_bearer_updates holds, in
\* the order of the activated rules, exactly the activated rules that carry
\* QoS with a QCI other than the default bearer's and have no bearer yet, in
\* an LTE session; it holds none in a WLAN session, and a creation is asked
\* for exactly when the request holds a rule
C25_BearerCreatedForQosRulesOnly ==
  \A rules_to_activate \in ActivatedRules, rules_to_deactivate \in DeactivatedRules :
    LET update == get_dedicated_bearer_updates(Cur, rules_to_activate,
                                               rules_to_deactivate).update
        expected ==
          SelectSeq(rules_to_activate.static_rules,
                    LAMBDA r : needs_dedicated_bearer("STATIC", r))
          \o SelectSeq(rules_to_activate.dynamic_rules,
                       LAMBDA r : needs_dedicated_bearer("DYNAMIC", r))
    IN /\ update.create_req.policy_rules = expected
       /\ update.needs_creation <=> expected # <<>>
       /\ update.needs_creation =>
            update.create_req.link_bearer_id = config_.bearer_id
\* the rules of an LTE session were set, and of its rules with QoS only the
\* one without a bearer and with a QCI of its own is in the creation request
C25_OneOfThreeQosRulesNeedsBearer ==
  /\ last_op = "handle_set_session_rules"
  /\ config_.has_lte_context
  /\ Range(active_static_rules_) = {"r1", "r2"}
  /\ dynamic_rules_ = {"d1"}
  /\ Has(bearer_id_by_policy_, PolicyID("DYNAMIC", "d1"))
  /\ get_dedicated_bearer_updates(
       Cur, [static_rules |-> <<"r1", "r2", "r4">>, dynamic_rules |-> <<"d1">>],
       RulesToProcess).update.create_req.policy_rules = <<"r1">>

\* the merge preconditions of the journal of j in the session: no rule is
\* installed that is installed already, or without a lifetime in the journal
\* unless it is scheduled; no rule is uninstalled that is neither installed
\* nor scheduled; no rule is scheduled that is scheduled already
merge_preconditions_hold(j) ==
  /\ j.static = "install" =>
       /\ ~is_static_rule_installed(Cur, "r1")
       /\ j.lifetimes \/ is_static_rule_scheduled(Cur, "r1")
  /\ j.static = "uninstall" =>
       is_static_rule_installed(Cur, "r1") \/ is_static_rule_scheduled(Cur, "r1")
  /\ j.static = "schedule" => ~is_static_rule_scheduled(Cur, "r1")
  /\ j.dynamic = "install" =>
       /\ ~is_dynamic_rule_installed(Cur, "d1")
       /\ j.lifetimes \/ is_dynamic_rule_scheduled(Cur, "d1")
  /\ j.dynamic = "uninstall" =>
       is_dynamic_rule_installed(Cur, "d1") \/ is_dynamic_rule_scheduled(Cur, "d1")
  /\ j.dynamic = "schedule" => ~is_dynamic_rule_scheduled(Cur, "d1")
  /\ j.gy = "install" => ~("g1" \in gy_dynamic_rules_) /\ j.lifetimes
  /\ j.gy = "uninstall" => "g1" \in gy_dynamic_rules_
  /\ j.restrict = "install" =>
       ~("x1" \in Range(active_restrict_rules_)) /\ j.lifetimes
  /\ j.restrict = "uninstall" => "x1" \in Range(active_restrict_rules_)

\* C26: apply_update_criteria returns false for a journal of which a merge
\* precondition is violated in the session, and true for every other journal
C26_MergeFailsOnViolatedPrecondition ==
  \A j \in MergeJournals :
    apply_update_criteria(Cur, journal_of(j)).ret <=> merge_preconditions_hold(j)
\* a journal was merged into a session that holds a rule in each kind of
\* active store and a scheduled rule: of the journals about four rules some
\* can be merged and some cannot
C26_SessionWithRuleOfEachKind ==
  /\ last_op = "apply_update_criteria"
  /\ is_static_rule_installed(Cur, "r1")
  /\ is_dynamic_rule_scheduled(Cur, "d1")
  /\ "g1" \in gy_dynamic_rules_
  /\ "x1" \in Range(active_restrict_rules_)
  /\ \E j \in MergeJournals :
       /\ j.static # "none" /\ j.dynamic # "none"
       /\ j.gy # "none" /\ j.restrict # "none"
       /\ apply_update_criteria(Cur, journal_of(j)).ret
  /\ \E j \in MergeJournals :
       /\ j.static = "none" /\ j.dynamic = "none" /\ j.gy = "none"
       /\ j.restrict = "install" /\ j.lifetimes
       /\ ~apply_update_criteria(Cur, journal_of(j)).ret

\* C27: the journal of one operation, or of two operations in a row, on the
\* rule stores of a session is merged by apply_update_criteria into the
\* session as it was before, and the stored form of the merged session is
\* the stored form of the session the operations ran on
C27_JournalReplayEqualsMutation ==
  \A once \in MergeOperations(Cur) :
    \A mutated \in {once} \cup MergeOperations(once) :
      LET replayed == apply_update_criteria(Cur, mutated.uc)
      IN /\ replayed.ret
         /\ marshal(replayed) = marshal(mutated)
\* a scheduled dynamic rule was removed: the rule is in no store, while the
\* merge of the journal of the call leaves it scheduled and among the
\* active static rules
C27_ReplayOfRemovalLeavesRuleScheduled ==
  /\ last_op = "remove_scheduled_dynamic_rule"
  /\ get_policy_type(Cur, "d1") = NoPolicyType
  /\ ~is_dynamic_rule_scheduled(Cur, "d1")
  /\ LET before == [Cur EXCEPT !.scheduled_dynamic_rules_ = @ \cup {"d1"}]
         replayed == apply_update_criteria(
                       before, remove_scheduled_dynamic_rule(before, "d1").uc)
     IN /\ replayed.ret
        /\ is_dynamic_rule_scheduled(replayed, "d1")
        /\ is_static_rule_installed(replayed, "d1")

\* C28: the session built from the stored form of a session has the stored
\* form of the session, and get_session_info reports for it the rules it
\* reports for the session, the active restrict rules among them
C28_RoundTripPreservesState ==
  LET restored == unmarshal(Cur, marshal(Cur))
  IN /\ marshal(restored) = marshal(Cur)
     /\ get_session_info(restored) = get_session_info(Cur)
\* a restrict rule was activated, and the session built from the stored form
\* reports no restrict rule
C28_RestrictRuleLostInStore ==
  /\ last_op = "activate_restrict_rule"
  /\ get_session_info(Cur).restrict_rules = <<"x1">>
  /\ get_session_info(unmarshal(Cur, marshal(Cur))).restrict_rules = <<>>

\* the journal of the call that led from the session before to the session
\* after holds an entry for the rule of every rule store that changed
journal_mirrors(before, after) ==
  /\ after.active_static_rules_ # before.active_static_rules_ =>
       "r1" \in after.uc.static_rules_to_install
                \cup after.uc.static_rules_to_uninstall
  /\ after.scheduled_static_rules_ # before.scheduled_static_rules_ =>
       "r1" \in after.uc.new_scheduled_static_rules
                \cup after.uc.static_rules_to_install
                \cup after.uc.static_rules_to_uninstall
  /\ after.dynamic_rules_ # before.dynamic_rules_ =>
       "d1" \in Range(after.uc.dynamic_rules_to_install)
                \cup after.uc.dynamic_rules_to_uninstall
  /\ after.scheduled_dynamic_rules_ # before.scheduled_dynamic_rules_ =>
       "d1" \in Range(after.uc.new_scheduled_dynamic_rules)
                \cup Range(after.uc.dynamic_rules_to_install)
                \cup after.uc.dynamic_rules_to_uninstall
  /\ after.gy_dynamic_rules_ # before.gy_dynamic_rules_ =>
       "g1" \in Range(after.uc.gy_dynamic_rules_to_install)
                \cup after.uc.gy_dynamic_rules_to_uninstall
  /\ after.active_restrict_rules_ # before.active_restrict_rules_ =>
       "x1" \in after.uc.restrict_rules_to_install
                \cup after.uc.restrict_rules_to_uninstall

\* C29: every operation on the rule stores of a session leaves in its
\* journal an entry for the rule it added to or removed from a store, and
\* deactivate_scheduled_static_rule of a scheduled rule leaves an uninstall
\* entry for the rule
C29_RuleChangesAreJournalled ==
  /\ \A after \in MergeOperations(Cur) : journal_mirrors(Cur, after)
  /\ \A rule_id \in MergeStaticRules :
       is_static_rule_scheduled(Cur, rule_id) =>
         rule_id \in deactivate_scheduled_static_rule(Cur, rule_id)
                       .uc.static_rules_to_uninstall
\* a scheduled static rule was removed by deactivate_scheduled_static_rule
\* and is in no store of static rules
C29_ScheduledRuleRemoved ==
  /\ last_op = "deactivate_scheduled_static_rule"
  /\ ~is_static_rule_scheduled(Cur, "r1")
  /\ ~is_static_rule_installed(Cur, "r1")
  /\ Has(rule_lifetimes_, "r1")

\* the successful session-level answers with action DISABLE
SessionLevelDisables ==
  [key : {"m1", SessionLevelMKey}, success : {TRUE}, has_credit : {TRUE},
   level : {"SESSION_LEVEL"}, action : {"DISABLE"},
   granted : 0..UsageMaxAllowed]

\* C30: a successful session-level answer with action DISABLE clears the
\* session-level key when it is for the session-level key, and leaves the
\* session-level key as it is when it is for another monitoring key
C30_DisableClearsMatchingKeyOnly ==
  \A update \in SessionLevelDisables :
    LET after == receive_monitor(Cur, update)
    IN after.session_level_key_ =
         IF update.key = session_level_key_ THEN NoKey ELSE session_level_key_
\* the session-level key is gone while the monitor of the session is held:
\* a DISABLE for the key of another monitor, received when the session-level
\* key was that of the held monitor, gives this session
C30_DisableOfOtherKeyClearedKey ==
  /\ last_op = "receive_monitor"
  /\ session_level_key_ = NoKey
  /\ Has(monitor_map_, SessionLevelMKey)
  /\ ~Has(monitor_map_, "m1")
  /\ \E update \in SessionLevelDisables :
       LET before == [Cur EXCEPT !.session_level_key_ = SessionLevelMKey]
           after == receive_monitor(before, update)
       IN /\ update.key = "m1"
          /\ after.session_level_key_ = NoKey
          /\ after.monitor_map_ = monitor_map_

\* the buckets of allowed credit of the entries of a credit or monitor map
allowed_of(m) == [k \in DOMAIN m |-> m[k].credit.allowed]

\* the call returned false, left the state of the session as it is, created
\* no entry and granted nothing
nothing_granted(st) ==
  /\ ~st.ret
  /\ st.curr_state_ = curr_state_
  /\ allowed_of(st.credit_map_) = allowed_of(credit_map_)
  /\ allowed_of(st.monitor_map_) = allowed_of(monitor_map_)
  /\ st.uc.charging_credit_to_install = EmptyMap
  /\ st.uc.monitor_credit_to_install = EmptyMap

\* C31: a response with success = false for a charging key, or for the
\* monitoring key of the credit it carries, grants nothing and is not fatal:
\* the call returns false, the allowed bucket of a known key and the state of
\* the session are unchanged, and no entry is created for an unknown key
C31_FailedResponseGrantsNothing ==
  /\ \A update \in NackCreditUpdates :
       ~update.success => nothing_granted(receive_charging_credit(Cur, update))
  /\ \A update \in NackMonitorUpdates :
       (~update.success /\ update.has_credit) =>
         nothing_granted(receive_monitor(Cur, update))

\* a failed response for the charging key was applied to a session without
\* a grant, which still has none, while the session reports the usage of a
\* monitor that a failed response would put back
C31_FailedInitLeftNoGrant ==
  /\ last_op = "receive_charging_credit"
  /\ credit_map_ = EmptyMap
  /\ curr_state_ = "SESSION_ACTIVE"
  /\ \E key \in DOMAIN monitor_map_ : is_reporting(monitor_map_[key].credit)

\* no field of the session differs in st
session_unmodified(st) ==
  /\ st.curr_state_ = curr_state_
  /\ st.request_number_ = request_number_
  /\ st.pending_event_triggers_ = pending_event_triggers_
  /\ st.bearer_id_by_policy_ = bearer_id_by_policy_
  /\ st.config_ = config_
  /\ st.active_static_rules_ = active_static_rules_
  /\ st.scheduled_static_rules_ = scheduled_static_rules_
  /\ st.dynamic_rules_ = dynamic_rules_
  /\ st.scheduled_dynamic_rules_ = scheduled_dynamic_rules_
  /\ st.gy_dynamic_rules_ = gy_dynamic_rules_
  /\ st.active_restrict_rules_ = active_restrict_rules_
  /\ st.rule_lifetimes_ = rule_lifetimes_
  /\ st.credit_map_ = credit_map_
  /\ st.monitor_map_ = monitor_map_
  /\ st.session_level_key_ = session_level_key_

\* the journal of j that also carries the new state of a released session
released_journal_of(j) ==
  [journal_of(j) EXCEPT !.is_fsm_updated = TRUE,
                        !.updated_fsm_state = "SESSION_RELEASED"]

\* C32: apply_update_criteria is all-or-nothing: when it returns false
\* because a merge precondition is violated, no field of the session has
\* been modified
C32_FailedMergeModifiesNothing ==
  \A j \in MergeJournals :
    /\ ~apply_update_criteria(Cur, journal_of(j)).ret =>
         session_unmodified(apply_update_criteria(Cur, journal_of(j)))
    /\ ~apply_update_criteria(Cur, released_journal_of(j)).ret =>
         session_unmodified(apply_update_criteria(Cur, released_journal_of(j)))

\* a journal was merged into a session that has no static rule and no
\* dynamic rule: the merge of a journal that installs static rule r1 and
\* uninstalls dynamic rule d1 returns false and leaves r1 installed, and with
\* the state of a released session in the journal it leaves the session
\* released
C32_FailedMergeLeftRuleInstalled ==
  /\ last_op = "apply_update_criteria"
  /\ curr_state_ = "SESSION_ACTIVE"
  /\ ~is_static_rule_installed(Cur, "r1")
  /\ \E j \in MergeJournals :
       LET merged == apply_update_criteria(Cur, released_journal_of(j))
       IN /\ j.static = "install" /\ j.dynamic = "uninstall" /\ j.lifetimes
          /\ ~merged.ret
          /\ is_static_rule_installed(merged, "r1")
          /\ merged.curr_state_ = "SESSION_RELEASED"

\* the journal that uninstalls dynamic rule d1
UninstallOfDynamicRule ==
  [NewUC EXCEPT !.dynamic_rules_to_uninstall = {"d1"}]

\* C33: when apply_update_criteria processes a dynamic rule id of
\* dynamic_rules_to_uninstall that is scheduled and not active in the
\* session, the rule ends in neither the scheduled nor the active dynamic
\* store, and the active static list and the scheduled static set are left
\* unchanged
C33_UninstallOfScheduledDynamicRule ==
  (is_dynamic_rule_scheduled(Cur, "d1") /\ ~is_dynamic_rule_installed(Cur, "d1")) =>
    LET merged == apply_update_criteria(Cur, UninstallOfDynamicRule)
    IN /\ ~is_dynamic_rule_scheduled(merged, "d1")
       /\ ~is_dynamic_rule_installed(merged, "d1")
       /\ merged.active_static_rules_ = active_static_rules_
       /\ merged.scheduled_static_rules_ = scheduled_static_rules_

\* dynamic rule d1 was scheduled in a session with static rule r1 scheduled:
\* the merge of the uninstall of d1 succeeds, leaves d1 scheduled and puts
\* the id of d1 at the end of the active static rules
C33_ScheduledDynamicRuleMadeStatic ==
  /\ last_op = "schedule_dynamic_rule"
  /\ is_dynamic_rule_scheduled(Cur, "d1")
  /\ ~is_dynamic_rule_installed(Cur, "d1")
  /\ is_static_rule_scheduled(Cur, "r1")
  /\ LET merged == apply_update_criteria(Cur, UninstallOfDynamicRule)
     IN /\ merged.ret
        /\ is_dynamic_rule_scheduled(merged, "d1")
        /\ merged.active_static_rules_ = Append(active_static_rules_, "d1")
        /\ merged.scheduled_static_rules_ = scheduled_static_rules_

\* the session as the next call finds it: the journal, the requests and the
\* service actions of the call before are gone
next_call(st) ==
  [st EXCEPT !.uc = NewUC, !.out = <<>>, !.actions_out = <<>>, !.ret = TRUE]

\* the service actions for key among the actions out of a call
ActionsFor(actions_out, key) ==
  {i \in 1..Len(actions_out) : actions_out[i].key = key}

C35_SessionLevelKeyNamesMonitor ==
  session_level_key_ # NoKey => Has(monitor_map_, session_level_key_)

\* add_rule_usage has erased the used-up monitor of the session, and the
\* session-level key still names it
C35_KeyOfErasedMonitorKept ==
  /\ last_op = "add_rule_usage"
  /\ session_level_key_ = SessionLevelMKey
  /\ ~Has(monitor_map_, SessionLevelMKey)

\* how often a vector of rule ids holds rule_id
Occurrences(rule_ids, rule_id) ==
  Cardinality({i \in 1..Len(rule_ids) : rule_ids[i] = rule_id})

\* C36: in every reachable state the active static rule list holds each rule
\* id at most once, and deactivating a rule once removes it from the active
\* list completely
C36_ActiveStaticRulesHeldOnce ==
  \A rule_id \in Range(active_static_rules_) :
    /\ Occurrences(active_static_rules_, rule_id) = 1
    /\ ~is_static_rule_installed(deactivate_static_rule(Cur, rule_id), rule_id)

\* sync_rules_to_time has run and the active list holds a static rule twice:
\* the rule is still installed after it is deactivated once
C36_ScheduledRuleInstalledTwice ==
  /\ last_op = "sync_rules_to_time"
  /\ \E rule_id \in SessionStaticRules :
       /\ Occurrences(active_static_rules_, rule_id) = 2
       /\ deactivate_static_rule(Cur, rule_id).ret
       /\ is_static_rule_installed(deactivate_static_rule(Cur, rule_id), rule_id)

\* the active store, the scheduled store and the journal of st are those
\* of the session before the call
stores_and_journal_kept(st) ==
  /\ st.active_static_rules_ = active_static_rules_
  /\ st.scheduled_static_rules_ = scheduled_static_rules_
  /\ st.dynamic_rules_ = dynamic_rules_
  /\ st.scheduled_dynamic_rules_ = scheduled_dynamic_rules_
  /\ st.uc = NewUC

\* C37: install_scheduled_static_rule and install_scheduled_dynamic_rule
\* called with a rule id that is not in the scheduled store leave the
\* active store, the scheduled store and the journal unchanged
C37_InstallOfUnscheduledRuleHasNoEffect ==
  /\ \A rule_id \in MergeStaticRules :
       ~is_static_rule_scheduled(Cur, rule_id) =>
         stores_and_journal_kept(install_scheduled_static_rule(Cur, rule_id))
  /\ \A rule_id \in DynamicRules :
       ~is_dynamic_rule_scheduled(Cur, rule_id) =>
         stores_and_journal_kept(install_scheduled_dynamic_rule(Cur, rule_id))

\* the merge of a journal has called install_scheduled_static_rule with the
\* id of a dynamic rule, which no scheduled static rule has: the id is among
\* the active static rules
C37_UnscheduledRuleMadeActive ==
  /\ last_op = "apply_update_criteria"
  /\ "d1" \in Range(active_static_rules_)
  /\ ~is_static_rule_scheduled(Cur, "r1")
  /\ LET installed == install_scheduled_static_rule(Cur, "r1")
     IN /\ installed.active_static_rules_ = Append(active_static_rules_, "r1")
        /\ installed.uc.static_rules_to_install = {"r1"}

\* the session after usage of rule r1, which carries charging key rg10, and
\* after a re-authorisation under the journal of that usage
after_usage == add_rule_usage(Cur, "r1", 1, 0)
ReauthsAfterUsage == {reauth_key(after_usage, "rg10"), reauth_all(after_usage)}

\* C38: when usage was added for a charging key and reauth_key or reauth_all
\* then marks the key REQUIRED under the same journal, the journal entry of
\* the key still carries the bucket deltas of the usage, and the replay of
\* the journal reproduces the usage and the reauth state of the grant
C38_ReauthKeepsJournalledUsage ==
  (Has(credit_map_, "rg10") /\ ~is_reporting(credit_map_["rg10"].credit)) =>
    \A reauthed \in ReauthsAfterUsage :
      /\ reauthed.credit_map_["rg10"].reauth_state = "REAUTH_REQUIRED"
      /\ reauthed.uc.charging_credit_map["rg10"].reauth_state = "REAUTH_REQUIRED"
      /\ reauthed.uc.charging_credit_map["rg10"].bucket_deltas
           = after_usage.uc.charging_credit_map["rg10"].bucket_deltas
      /\ apply_update_criteria(Cur, reauthed.uc).credit_map_["rg10"]
           = reauthed.credit_map_["rg10"]

\* a grant was marked REQUIRED: usage of its key followed by reauth_key under
\* one journal leaves a journal entry without the usage, and the replay of
\* the journal leaves the usage out of the grant
C38_ReauthDroppedJournalledUsage ==
  /\ last_op = "reauth_key"
  /\ Has(credit_map_, "rg10")
  /\ ~is_reporting(credit_map_["rg10"].credit)
  /\ after_usage.uc.charging_credit_map["rg10"].bucket_deltas.used_tx = 1
  /\ LET reauthed == reauth_key(after_usage, "rg10")
         replayed == apply_update_criteria(Cur, reauthed.uc)
     IN /\ reauthed.ret
        /\ reauthed.uc.charging_credit_map["rg10"].bucket_deltas = NoDeltas
        /\ reauthed.credit_map_["rg10"].credit.used_tx
             = credit_map_["rg10"].credit.used_tx + 1
        /\ replayed.credit_map_["rg10"].credit.used_tx
             = credit_map_["rg10"].credit.used_tx

\* the rule sets of a message that are subscriber-wide, and those of an APN
subscriber_wide_in(rule_sets) ==
  {rule_sets[i] : i \in {j \in DOMAIN rule_sets :
                           rule_sets[j].apply_subscriber_wide}}
rule_sets_of_apn_in(rule_sets, apn) ==
  {rule_sets[i] : i \in {j \in DOMAIN rule_sets :
                           /\ ~rule_sets[j].apply_subscriber_wide
                           /\ rule_sets[j].apn = apn}}
\* the ids of the rules of a set of rule sets
rule_ids_of(rule_sets) ==
  UNION {rs.static_rules \cup DOMAIN rs.dynamic_rules : rs \in rule_sets}

\* C39: for a subscriber's list of rule sets, get_combined_rule_set_for_apn
\* returns a rule set exactly when the list has a subscriber-wide rule set or
\* one of that APN, and every rule of either is in what it returns, wherever
\* in the list they stand
C39_CombinedRuleSetIsUnion ==
  last_op = "get_combined_rule_set_for_apn" =>
    LET wide == subscriber_wide_in(rules_per_subscriber)
        of_apn == rule_sets_of_apn_in(rules_per_subscriber,
                                      combined_rule_set.apn)
    IN /\ (combined_rule_set.rule_set = {}) <=> (wide = {} /\ of_apn = {})
       /\ Cardinality(wide) <= 1 /\ Cardinality(of_apn) <= 1 =>
            rule_ids_of(combined_rule_set.rule_set) =
              rule_ids_of(wide \cup of_apn)

\* C39: the list has a subscriber-wide rule set with r1 followed by a rule set
\* of apn1, and the rule set returned for apn1 is without r1
C39_SubscriberWideRuleSetLost ==
  /\ last_op = "get_combined_rule_set_for_apn"
  /\ combined_rule_set.apn = "apn1"
  /\ Len(rules_per_subscriber) = 2
  /\ rules_per_subscriber[1].apply_subscriber_wide
  /\ "r1" \in rules_per_subscriber[1].static_rules
  /\ ~rules_per_subscriber[2].apply_subscriber_wide
  /\ rules_per_subscriber[2].apn = "apn1"
  /\ combined_rule_set.rule_set # {}
  /\ "r1" \notin rule_ids_of(combined_rule_set.rule_set)

\* the session after add_to_monitor of one byte under key, with its journal
monitor_usage_added(key) == add_to_monitor(Cur, key, 1, 0)

\* C40: when add_to_monitor erases an exhausted monitor from the session and
\* marks it deleted in the journal, apply_update_criteria of that journal on
\* the session as it was before the call removes the monitor from its map
C40_MonitorDeletionReplayed ==
  \A key \in DOMAIN monitor_map_ :
    LET erased == monitor_usage_added(key)
    IN (/\ ~Has(erased.monitor_map_, key)
        /\ erased.uc.monitor_credit_map[key].deleted) =>
         ~Has(apply_update_criteria(Cur, erased.uc).monitor_map_, key)

\* a monitor with a zero grant is used up, add_to_monitor erases it and marks
\* it deleted, the merge of the journal succeeds and the monitor is still in
\* the map of the session the journal was merged into
C40_DeletedMonitorKeptByMerge ==
  \E key \in DOMAIN monitor_map_ :
    LET erased == monitor_usage_added(key)
        merged == apply_update_criteria(Cur, erased.uc)
    IN /\ should_delete_monitor(monitor_map_[key])
       /\ ~Has(erased.monitor_map_, key)
       /\ erased.uc.monitor_credit_map[key].deleted
       /\ merged.ret
       /\ Has(merged.monitor_map_, key)

====
